---- MODULE Spec2Model ----
(***************************************************************************)
(* CompatStdioServerTransport (packages/mcp-tunnel): a stdio transport     *)
(* that speaks both Content-Length framing and newline-delimited JSON and  *)
(* mirrors the framing the peer uses.                                      *)
(*                                                                         *)
(* Byte buffers and JavaScript strings are TLA+ strings, one character per *)
(* byte / UTF-16 code unit.  ASCII bytes stand for themselves.  Five       *)
(* otherwise unused ASCII characters stand for the non-ASCII bytes of the  *)
(* two multi-byte characters the model knows:                              *)
(*    bytes  "^" "~"      = C3 A9     (UTF-8 of U+00E9)                     *)
(*    bytes  "<" "=" ">"  = EF BB BF  (UTF-8 of U+FEFF, the BOM)            *)
(* and three stand for code units of decoded text:                         *)
(*    char   "@" = U+00E9,  char "#" = U+FEFF,  char "?" = U+FFFD          *)
(***************************************************************************)
EXTENDS Integers, Sequences, FiniteSets, TLC

CR == "\r"
LF == "\n"

(***************************************************************************)
(* String helpers with JavaScript's 0-based indices.                       *)
(***************************************************************************)
\* s.slice(a, b) / buffer.subarray(a, b) for 0 <= a <= b <= length
Slice(s, a, b) == SubSeq(s, a + 1, b)

\* s[i]
CharAt(s, i) == SubSeq(s, i + 1, i + 1)

\* s.startsWith(p)
StartsWith(s, p) == Len(s) >= Len(p) /\ SubSeq(s, 1, Len(p)) = p

\* s.indexOf(p): the least index at which p occurs, -1 when there is none
IndexOf(s, p) ==
    LET hits == {i \in 0..(Len(s) - Len(p)) : Slice(s, i, i + Len(p)) = p}
    IN  IF hits = {} THEN -1 ELSE CHOOSE i \in hits : \A j \in hits : i <= j

\* White space of String.prototype.trim (U+FEFF is white space to trim)
JsWhiteSpace == {" ", "\t", LF, CR, "#"}

\* Line terminators of the regular expression anchors ^ and $ under /m
LineTerminator == {LF, CR}

\* White space of the regular expression class \s
RegexSpace == {" ", "\t", LF, CR, "#"}

Digit == {"0", "1", "2", "3", "4", "5", "6", "7", "8", "9"}

\* s.trimStart()
TrimStart(s) ==
    LET keep == {i \in 0..(Len(s) - 1) : CharAt(s, i) \notin JsWhiteSpace}
    IN  IF keep = {} THEN ""
        ELSE Slice(s, CHOOSE i \in keep : \A j \in keep : i <= j, Len(s))

\* s.trim()
Trim(s) ==
    LET keep == {i \in 0..(Len(s) - 1) : CharAt(s, i) \notin JsWhiteSpace}
    IN  IF keep = {} THEN ""
        ELSE Slice(s, CHOOSE i \in keep : \A j \in keep : i <= j,
                      (CHOOSE i \in keep : \A j \in keep : i >= j) + 1)

\* s.replace(/\r$/, '')
StripTrailingCR(s) ==
    IF Len(s) > 0 /\ CharAt(s, Len(s) - 1) = CR THEN Slice(s, 0, Len(s) - 1) ELSE s

\* s.replace(/^\uFEFF/, '')
StripLeadingBOM(s) ==
    IF StartsWith(s, "#") THEN Slice(s, 1, Len(s)) ELSE s

DigitValue(c) ==
    CASE c = "0" -> 0 [] c = "1" -> 1 [] c = "2" -> 2 [] c = "3" -> 3
      [] c = "4" -> 4 [] c = "5" -> 5 [] c = "6" -> 6 [] c = "7" -> 7
      [] c = "8" -> 8 [] c = "9" -> 9

DigitChar(d) ==
    CASE d = 0 -> "0" [] d = 1 -> "1" [] d = 2 -> "2" [] d = 3 -> "3"
      [] d = 4 -> "4" [] d = 5 -> "5" [] d = 6 -> "6" [] d = 7 -> "7"
      [] d = 8 -> "8" [] d = 9 -> "9"

\* Number(digits) for a non-empty string of decimal digits
RECURSIVE ToNumber(_)
ToNumber(ds) ==
    IF Len(ds) = 0 THEN 0
    ELSE 10 * ToNumber(Slice(ds, 0, Len(ds) - 1)) + DigitValue(CharAt(ds, Len(ds) - 1))

\* String(n) / `${n}` for a natural number n
RECURSIVE ToDecimal(_)
ToDecimal(n) ==
    IF n < 10 THEN DigitChar(n) ELSE ToDecimal(n \div 10) \o DigitChar(n % 10)

(***************************************************************************)
(* UTF-8: Buffer.from(text, 'utf8') and buffer.toString('utf8').           *)
(***************************************************************************)
\* Bytes below 0x80 are the code units below U+0080 and stand for themselves.
IsAscii(s) == \A i \in 1..Len(s) : SubSeq(s, i, i) \notin {"@", "#", "?", "^", "~", "<", "=", ">"}

RECURSIVE EncodeUnits(_)
EncodeUnits(text) ==
    IF Len(text) = 0 THEN ""
    ELSE LET c == CharAt(text, 0)
             rest == EncodeUnits(Slice(text, 1, Len(text)))
         IN  CASE c = "@" -> "^~" \o rest
               [] c = "#" -> "<=>" \o rest
               [] OTHER   -> c \o rest

Utf8Encode(text) == IF IsAscii(text) THEN text ELSE EncodeUnits(text)

\* An ill-formed or truncated sequence decodes to U+FFFD, one per maximal
\* ill-formed subsequence.
RECURSIVE DecodeBytes(_)
DecodeBytes(bytes) ==
    IF Len(bytes) = 0 THEN ""
    ELSE LET n == Len(bytes)
             b == CharAt(bytes, 0)
         IN  CASE b = "^" ->
                    IF n >= 2 /\ CharAt(bytes, 1) = "~"
                    THEN "@" \o DecodeBytes(Slice(bytes, 2, n))
                    ELSE "?" \o DecodeBytes(Slice(bytes, 1, n))
               [] b = "<" ->
                    IF n >= 3 /\ CharAt(bytes, 1) = "=" /\ CharAt(bytes, 2) = ">"
                    THEN "#" \o DecodeBytes(Slice(bytes, 3, n))
                    ELSE IF n >= 2 /\ CharAt(bytes, 1) = "="
                    THEN "?" \o DecodeBytes(Slice(bytes, 2, n))
                    ELSE "?" \o DecodeBytes(Slice(bytes, 1, n))
               [] b \in {"~", "=", ">"} -> "?" \o DecodeBytes(Slice(bytes, 1, n))
               [] OTHER -> b \o DecodeBytes(Slice(bytes, 1, n))

Utf8Decode(bytes) == IF IsAscii(bytes) THEN bytes ELSE DecodeBytes(bytes)

\* Buffer.byteLength(text, 'utf8')
ByteLength(text) == Len(Utf8Encode(text))

(***************************************************************************)
(* JSON values.  Every value is a record of one shape: t is the type tag,  *)
(* n the number, s the string, kv the members of an object (key, value) or *)
(* the elements of an array ("", value), in text order.                    *)
(* The number grammar is the non-negative integers: "-", "." and exponents *)
(* are not in the alphabet of the streams.                                 *)
(***************************************************************************)
JNull == [t |-> "null", n |-> 0, s |-> "", kv |-> <<>>]
JTrue == [t |-> "true", n |-> 0, s |-> "", kv |-> <<>>]
JFalse == [t |-> "false", n |-> 0, s |-> "", kv |-> <<>>]
JNum(k) == [t |-> "number", n |-> k, s |-> "", kv |-> <<>>]
JStr(str) == [t |-> "string", n |-> 0, s |-> str, kv |-> <<>>]
JObj(members) == [t |-> "object", n |-> 0, s |-> "", kv |-> members]
JArr(items) == [t |-> "array", n |-> 0, s |-> "", kv |-> items]

JsonWhiteSpace == {" ", "\t", LF, CR}

ParseFail == [ok |-> FALSE, val |-> JNull, next |-> 0]
ParseOk(v, i) == [ok |-> TRUE, val |-> v, next |-> i]

\* The index of the first character at or after i that is not JSON white space
RECURSIVE SkipWs(_, _)
SkipWs(text, i) ==
    IF i < Len(text) /\ CharAt(text, i) \in JsonWhiteSpace THEN SkipWs(text, i + 1) ELSE i

\* The end of the run of digits that starts at i
RECURSIVE DigitsEnd(_, _)
DigitsEnd(text, i) ==
    IF i < Len(text) /\ CharAt(text, i) \in Digit THEN DigitsEnd(text, i + 1) ELSE i

\* A number at i: "0", or a digit 1-9 followed by digits
ParseNumber(text, i) ==
    IF CharAt(text, i) = "0" THEN ParseOk(JNum(0), i + 1)
    ELSE LET e == DigitsEnd(text, i)
         IN  ParseOk(JNum(ToNumber(Slice(text, i, e))), e)

\* The characters of a string literal from i (just after the opening quote)
\* up to the closing quote; acc is the decoded text so far.
RECURSIVE ParseStringBody(_, _, _)
ParseStringBody(text, i, acc) ==
    IF i >= Len(text) THEN ParseFail
    ELSE LET c == CharAt(text, i)
         IN  CASE c = "\"" -> ParseOk(JStr(acc), i + 1)
               [] c = "\\" ->
                    IF i + 1 >= Len(text) THEN ParseFail
                    ELSE LET e == CharAt(text, i + 1)
                         IN  CASE e = "\"" -> ParseStringBody(text, i + 2, acc \o "\"")
                               [] e = "\\" -> ParseStringBody(text, i + 2, acc \o "\\")
                               [] e = "/"  -> ParseStringBody(text, i + 2, acc \o "/")
                               [] e = "n"  -> ParseStringBody(text, i + 2, acc \o LF)
                               [] e = "r"  -> ParseStringBody(text, i + 2, acc \o CR)
                               [] e = "t"  -> ParseStringBody(text, i + 2, acc \o "\t")
                               [] OTHER    -> ParseFail
               [] c \in {LF, CR, "\t"} -> ParseFail
               [] OTHER -> ParseStringBody(text, i + 1, acc \o c)

\* members with key k set to v: a repeated key keeps its place and takes the
\* later value
SetMember(members, k, v) ==
    IF \E j \in 1..Len(members) : members[j][1] = k
    THEN [j \in 1..Len(members) |->
            IF members[j][1] = k THEN <<k, v>> ELSE members[j]]
    ELSE Append(members, <<k, v>>)

RECURSIVE ParseValue(_, _)
RECURSIVE ParseMembers(_, _, _)
RECURSIVE ParseElements(_, _, _)

\* i is at the first character of a member (a key); acc holds the members
\* read so far
ParseMembers(text, i, acc) ==
    IF i >= Len(text) \/ CharAt(text, i) # "\"" THEN ParseFail
    ELSE LET key == ParseStringBody(text, i + 1, "")
         IN  IF ~key.ok THEN ParseFail
             ELSE LET colon == SkipWs(text, key.next)
                  IN  IF colon >= Len(text) \/ CharAt(text, colon) # ":" THEN ParseFail
                      ELSE LET v == ParseValue(text, SkipWs(text, colon + 1))
                           IN  IF ~v.ok THEN ParseFail
                               ELSE LET after == SkipWs(text, v.next)
                                        members == SetMember(acc, key.val.s, v.val)
                                    IN  IF after >= Len(text) THEN ParseFail
                                        ELSE IF CharAt(text, after) = "}"
                                        THEN ParseOk(JObj(members), after + 1)
                                        ELSE IF CharAt(text, after) = ","
                                        THEN ParseMembers(text, SkipWs(text, after + 1), members)
                                        ELSE ParseFail

\* i is at the first character of an element; acc holds the elements so far
ParseElements(text, i, acc) ==
    LET v == ParseValue(text, i)
    IN  IF ~v.ok THEN ParseFail
        ELSE LET after == SkipWs(text, v.next)
                 items == Append(acc, <<"", v.val>>)
             IN  IF after >= Len(text) THEN ParseFail
                 ELSE IF CharAt(text, after) = "]"
                 THEN ParseOk(JArr(items), after + 1)
                 ELSE IF CharAt(text, after) = ","
                 THEN ParseElements(text, SkipWs(text, after + 1), items)
                 ELSE ParseFail

\* The value that starts at i (white space already skipped)
ParseValue(text, i) ==
    IF i >= Len(text) THEN ParseFail
    ELSE LET c == CharAt(text, i)
             rest == Slice(text, i, Len(text))
         IN  CASE c = "{" ->
                    LET j == SkipWs(text, i + 1)
                    IN  IF j < Len(text) /\ CharAt(text, j) = "}"
                        THEN ParseOk(JObj(<<>>), j + 1)
                        ELSE ParseMembers(text, j, <<>>)
               [] c = "[" ->
                    LET j == SkipWs(text, i + 1)
                    IN  IF j < Len(text) /\ CharAt(text, j) = "]"
                        THEN ParseOk(JArr(<<>>), j + 1)
                        ELSE ParseElements(text, j, <<>>)
               [] c = "\"" -> ParseStringBody(text, i + 1, "")
               [] c \in Digit -> ParseNumber(text, i)
               [] c = "t" -> IF StartsWith(rest, "true") THEN ParseOk(JTrue, i + 4) ELSE ParseFail
               [] c = "f" -> IF StartsWith(rest, "false") THEN ParseOk(JFalse, i + 5) ELSE ParseFail
               [] c = "n" -> IF StartsWith(rest, "null") THEN ParseOk(JNull, i + 4) ELSE ParseFail
               [] OTHER -> ParseFail

\* JSON.parse(text): ok is FALSE where JSON.parse throws a SyntaxError
JsonParse(text) ==
    LET r == ParseValue(text, SkipWs(text, 0))
    IN  IF r.ok /\ SkipWs(text, r.next) = Len(text) THEN r ELSE ParseFail

\* The body of a string literal: quotes, backslashes and control characters
\* escaped
RECURSIVE EscapeString(_)
EscapeString(str) ==
    IF Len(str) = 0 THEN ""
    ELSE LET c == CharAt(str, 0)
             rest == EscapeString(Slice(str, 1, Len(str)))
         IN  CASE c = "\"" -> "\\\"" \o rest
               [] c = "\\" -> "\\\\" \o rest
               [] c = LF   -> "\\n" \o rest
               [] c = CR   -> "\\r" \o rest
               [] c = "\t" -> "\\t" \o rest
               [] OTHER    -> c \o rest

RECURSIVE JsonStringify(_)
RECURSIVE StringifyMembers(_, _)

\* The members (isObject) or elements of kv, separated by commas
StringifyMembers(kv, isObject) ==
    IF Len(kv) = 0 THEN ""
    ELSE LET one == (IF isObject THEN "\"" \o EscapeString(kv[1][1]) \o "\":" ELSE "")
                    \o JsonStringify(kv[1][2])
         IN  IF Len(kv) = 1 THEN one
             ELSE one \o "," \o StringifyMembers(Tail(kv), isObject)

\* JSON.stringify(value)
JsonStringify(v) ==
    CASE v.t = "null"   -> "null"
      [] v.t = "true"   -> "true"
      [] v.t = "false"  -> "false"
      [] v.t = "number" -> ToDecimal(v.n)
      [] v.t = "string" -> "\"" \o EscapeString(v.s) \o "\""
      [] v.t = "object" -> "{" \o StringifyMembers(v.kv, TRUE) \o "}"
      [] v.t = "array"  -> "[" \o StringifyMembers(v.kv, FALSE) \o "]"

(***************************************************************************)
(* The header pattern /^Content-Length:\s*(\d+)$/im.                       *)
(***************************************************************************)
LowerChar(c) ==
    CASE c = "C" -> "c" [] c = "O" -> "o" [] c = "N" -> "n" [] c = "T" -> "t"
      [] c = "E" -> "e" [] c = "L" -> "l" [] c = "G" -> "g" [] c = "H" -> "h"
      [] OTHER -> c

RECURSIVE LowerCase(_)
LowerCase(s) ==
    IF Len(s) = 0 THEN "" ELSE LowerChar(CharAt(s, 0)) \o LowerCase(Slice(s, 1, Len(s)))

\* The end of the run of \s characters that starts at i
RECURSIVE SpacesEnd(_, _)
SpacesEnd(text, i) ==
    IF i < Len(text) /\ CharAt(text, i) \in RegexSpace THEN SpacesEnd(text, i + 1) ELSE i

\* Whether the pattern matches with its first character at index i:
\* ^ at the start of a line, the token in any case, \s*, \d+, $ at a line end
HeaderMatchesAt(headerText, i) ==
    /\ i = 0 \/ CharAt(headerText, i - 1) \in LineTerminator
    /\ i + 15 <= Len(headerText)
    /\ LowerCase(Slice(headerText, i, i + 15)) = "content-length:"
    /\ LET d == SpacesEnd(headerText, i + 15)
           e == DigitsEnd(headerText, d)
       IN  /\ e > d
           /\ e = Len(headerText) \/ CharAt(headerText, e) \in LineTerminator

\* contentLengthMatch[1] of the leftmost match, "" when exec returns null
ContentLengthMatch(headerText) ==
    LET at == {i \in 0..(Len(headerText) - 1) : HeaderMatchesAt(headerText, i)}
    IN  IF at = {} THEN ""
        ELSE LET i == CHOOSE k \in at : \A j \in at : k <= j
                 d == SpacesEnd(headerText, i + 15)
             IN  Slice(headerText, d, DigitsEnd(headerText, d))

(***************************************************************************)
(* The transport's decoder.  st is the transport as a decode loop and the   *)
(* callbacks it invokes read and write it: buffer; log, the sequence of    *)
(* callback invocations (onmessage, onerror, onclose) in the order they    *)
(* were made; the listeners on stdin and the flow of stdin, which close()  *)
(* changes; closes, the close() calls made so far; and closeIn, the        *)
(* callbacks in which the owner of the transport calls close().            *)
(***************************************************************************)
OnMessage(v) == [cb |-> "onmessage", value |-> v, error |-> "", text |-> ""]
OnError(e, t) == [cb |-> "onerror", value |-> JNull, error |-> e, text |-> t]
OnClose == [cb |-> "onclose", value |-> JNull, error |-> "", text |-> ""]

RECURSIVE Callback(_, _)

\* close() that leaves this.buffer as it is
closeOnKeepsBuffer(st) ==
    LET listening == IF st.dataListeners > 0 THEN st.dataListeners - 1 ELSE 0
    IN  Callback([st EXCEPT !.dataListeners = listening,
                            !.errorListeners = IF @ > 0 THEN @ - 1 ELSE 0,
                            !.stdinFlowing = IF listening = 0 THEN "false" ELSE @,
                            !.closes = @ + 1],
                 OnClose)

\* close() on the transport st
closeOn(st) ==
    LET listening == IF st.dataListeners > 0 THEN st.dataListeners - 1 ELSE 0
    IN  Callback([st EXCEPT !.dataListeners = listening,
                            !.errorListeners = IF @ > 0 THEN @ - 1 ELSE 0,
                            !.stdinFlowing = IF listening = 0 THEN "false" ELSE @,
                            !.buffer = "",
                            !.closes = @ + 1],
                 OnClose)

\* this.onmessage?.(...) / this.onerror?.(...) / this.onclose?.(): the
\* callback is invoked, and the owner calls close() in it or returns
Callback(st, event) ==
    LET invoked == [st EXCEPT !.log = Append(@, event)]
    IN  IF event.cb \in st.closeIn THEN closeOn(invoked) ELSE invoked

dispatchJsonLine(st, jsonLine) ==
    LET parsed == JsonParse(jsonLine)
    IN  IF parsed.ok
        THEN Callback(st, OnMessage(parsed.val))
        ELSE Callback(st, OnError("SyntaxError", jsonLine))

detectFramingMode(buffer) ==
    LET probe == Utf8Decode(buffer)
        trimmed == TrimStart(StripLeadingBOM(probe))
        newlineIndex == IndexOf(probe, LF)
        firstLine == Trim(StripTrailingCR(Slice(probe, 0, newlineIndex)))
    IN  IF StartsWith(trimmed, "Content-Length:") THEN "content-length"
        ELSE IF newlineIndex = -1 THEN "undefined"
        ELSE IF StartsWith(firstLine, "{") \/ StartsWith(firstLine, "[") THEN "newline"
        ELSE "content-length"

\* processNewlineBuffer without the test that skips an empty line
RECURSIVE processNewlineBufferNoSkip(_)
processNewlineBufferNoSkip(st) ==
    LET newlineIndex == IndexOf(st.buffer, LF)
    IN  IF newlineIndex = -1 THEN st
        ELSE LET line == Trim(StripTrailingCR(Utf8Decode(Slice(st.buffer, 0, newlineIndex))))
                 rest == [st EXCEPT !.buffer = Slice(@, newlineIndex + 1, Len(@))]
             IN  processNewlineBufferNoSkip(dispatchJsonLine(rest, line))

\* s.lastIndexOf(p)
RECURSIVE LastIndexFrom(_, _, _)
LastIndexFrom(s, p, i) ==
    IF i < 0 THEN -1
    ELSE IF Slice(s, i, i + Len(p)) = p THEN i
    ELSE LastIndexFrom(s, p, i - 1)

\* processNewlineBuffer cutting at the last line feed of the buffer instead
\* of the first
RECURSIVE processNewlineBufferLastIndex(_)
processNewlineBufferLastIndex(st) ==
    LET newlineIndex == LastIndexFrom(st.buffer, LF, Len(st.buffer) - 1)
    IN  IF newlineIndex = -1 THEN st
        ELSE LET line == Trim(StripTrailingCR(Utf8Decode(Slice(st.buffer, 0, newlineIndex))))
                 rest == [st EXCEPT !.buffer = Slice(@, newlineIndex + 1, Len(@))]
             IN  IF line = "" THEN processNewlineBufferLastIndex(rest)
                 ELSE processNewlineBufferLastIndex(dispatchJsonLine(rest, line))

\* processNewlineBuffer whose loop ends at a line that fails to parse
RECURSIVE processNewlineBufferStopsOnError(_)
processNewlineBufferStopsOnError(st) ==
    LET newlineIndex == IndexOf(st.buffer, LF)
    IN  IF newlineIndex = -1 THEN st
        ELSE LET line == Trim(StripTrailingCR(Utf8Decode(Slice(st.buffer, 0, newlineIndex))))
                 rest == [st EXCEPT !.buffer = Slice(@, newlineIndex + 1, Len(@))]
             IN  IF line = "" THEN processNewlineBufferStopsOnError(rest)
                 ELSE IF JsonParse(line).ok
                 THEN processNewlineBufferStopsOnError(dispatchJsonLine(rest, line))
                 ELSE dispatchJsonLine(rest, line)

RECURSIVE processNewlineBuffer(_)
processNewlineBuffer(st) ==
    LET newlineIndex == IndexOf(st.buffer, LF)
    IN  IF newlineIndex = -1 THEN st
        ELSE LET line == Trim(StripTrailingCR(Utf8Decode(Slice(st.buffer, 0, newlineIndex))))
                 rest == [st EXCEPT !.buffer = Slice(@, newlineIndex + 1, Len(@))]
             IN  IF line = "" THEN processNewlineBuffer(rest)
                 ELSE processNewlineBuffer(dispatchJsonLine(rest, line))

\* processContentLengthBuffer without the wait for the whole body
RECURSIVE processContentLengthBufferPartial(_)
processContentLengthBufferPartial(st) ==
    LET crlf == IndexOf(st.buffer, CR \o LF \o CR \o LF)
        headerEnd == IF crlf = -1 THEN IndexOf(st.buffer, LF \o LF) ELSE crlf
        delimiterLength == IF crlf = -1 THEN 2 ELSE 4
    IN  IF headerEnd = -1 THEN st
        ELSE LET headerText == Utf8Decode(Slice(st.buffer, 0, headerEnd))
                 contentLengthMatch == ContentLengthMatch(headerText)
                 contentLength == ToNumber(contentLengthMatch)
                 bodyOffset == headerEnd + delimiterLength
             IN  IF contentLengthMatch = ""
                 THEN processContentLengthBufferPartial(
                        [Callback(st, OnError("Invalid MCP header", headerText))
                            EXCEPT !.buffer = Slice(@, headerEnd + delimiterLength, Len(@))])
                 ELSE LET bodyEnd == IF Len(st.buffer) < bodyOffset + contentLength
                                     THEN Len(st.buffer) ELSE bodyOffset + contentLength
                          payload == Utf8Decode(Slice(st.buffer, bodyOffset, bodyEnd))
                          rest == [st EXCEPT !.buffer = Slice(@, bodyEnd, Len(@))]
                      IN  processContentLengthBufferPartial(dispatchJsonLine(rest, payload))

\* processContentLengthBuffer taking the body from the end of the header text,
\* the delimiter not skipped
RECURSIVE processContentLengthBufferNoDelimiter(_)
processContentLengthBufferNoDelimiter(st) ==
    LET crlf == IndexOf(st.buffer, CR \o LF \o CR \o LF)
        headerEnd == IF crlf = -1 THEN IndexOf(st.buffer, LF \o LF) ELSE crlf
        delimiterLength == IF crlf = -1 THEN 2 ELSE 4
    IN  IF headerEnd = -1 THEN st
        ELSE LET headerText == Utf8Decode(Slice(st.buffer, 0, headerEnd))
                 contentLengthMatch == ContentLengthMatch(headerText)
                 contentLength == ToNumber(contentLengthMatch)
                 bodyOffset == headerEnd
             IN  IF contentLengthMatch = ""
                 THEN processContentLengthBufferNoDelimiter(
                        [Callback(st, OnError("Invalid MCP header", headerText))
                            EXCEPT !.buffer = Slice(@, headerEnd + delimiterLength, Len(@))])
                 ELSE IF Len(st.buffer) < bodyOffset + contentLength THEN st
                 ELSE LET payload == Utf8Decode(Slice(st.buffer, bodyOffset, bodyOffset + contentLength))
                          rest == [st EXCEPT !.buffer = Slice(@, bodyOffset + contentLength, Len(@))]
                      IN  processContentLengthBufferNoDelimiter(dispatchJsonLine(rest, payload))

RECURSIVE processContentLengthBuffer(_)
processContentLengthBuffer(st) ==
    LET crlf == IndexOf(st.buffer, CR \o LF \o CR \o LF)
        headerEnd == IF crlf = -1 THEN IndexOf(st.buffer, LF \o LF) ELSE crlf
        delimiterLength == IF crlf = -1 THEN 2 ELSE 4
    IN  IF headerEnd = -1 THEN st
        ELSE LET headerText == Utf8Decode(Slice(st.buffer, 0, headerEnd))
                 contentLengthMatch == ContentLengthMatch(headerText)
                 contentLength == ToNumber(contentLengthMatch)
                 bodyOffset == headerEnd + delimiterLength
             IN  IF contentLengthMatch = ""
                 THEN processContentLengthBuffer(
                        [Callback(st, OnError("Invalid MCP header", headerText))
                            EXCEPT !.buffer = Slice(@, headerEnd + delimiterLength, Len(@))])
                 ELSE IF Len(st.buffer) < bodyOffset + contentLength THEN st
                 ELSE LET payload == Utf8Decode(Slice(st.buffer, bodyOffset, bodyOffset + contentLength))
                          rest == [st EXCEPT !.buffer = Slice(@, bodyOffset + contentLength, Len(@))]
                      IN  processContentLengthBuffer(dispatchJsonLine(rest, payload))

\* handleData running the detection on every chunk, the mode already set or not
handleDataRedetect(t, chunk) ==
    LET buffered == t.buffer \o chunk
        detected == detectFramingMode(buffered)
        mode == IF detected = "undefined" THEN t.framingMode ELSE detected
        st == [t EXCEPT !.buffer = buffered, !.framingMode = mode]
    IN  IF mode = "undefined" THEN st
        ELSE IF mode = "content-length" THEN processContentLengthBuffer(st)
        ELSE processNewlineBuffer(st)

\* handleData(chunk) on the transport t
handleData(t, chunk) ==
    LET buffered == t.buffer \o chunk
        mode == IF t.framingMode = "undefined" THEN detectFramingMode(buffered)
                ELSE t.framingMode
        st == [t EXCEPT !.buffer = buffered, !.framingMode = mode]
    IN  IF mode = "undefined" THEN st
        ELSE IF mode = "content-length" THEN processContentLengthBuffer(st)
        ELSE processNewlineBuffer(st)

\* sendOutput announcing payload.length, the count of UTF-16 code units
sendOutputCharLength(message, mode) ==
    LET payload == JsonStringify(message)
    IN  IF mode = "newline" THEN payload \o LF
        ELSE "Content-Length: " \o ToDecimal(Len(payload)) \o CR \o LF \o CR \o LF \o payload

\* sendOutput framing by lines unless content-length was detected
sendOutputNewlineDefault(message, mode) ==
    LET payload == JsonStringify(message)
    IN  IF mode # "content-length" THEN payload \o LF
        ELSE "Content-Length: " \o ToDecimal(ByteLength(payload)) \o CR \o LF \o CR \o LF \o payload

\* The text send() hands to stdout.write for a message, under a framing mode
sendOutput(message, mode) ==
    LET payload == JsonStringify(message)
    IN  IF mode = "newline" THEN payload \o LF
        ELSE "Content-Length: " \o ToDecimal(ByteLength(payload)) \o CR \o LF \o CR \o LF \o payload

\* handleError that takes a stdin error for the end of the stream
handleErrorCloses(st, error) ==
    Callback([Callback(st, OnError(error, "")) EXCEPT !.buffer = ""], OnClose)

\* handleError(error)
handleError(st, error) == Callback(st, OnError(error, ""))

(***************************************************************************)
(* Bounds of the model.                                                    *)
(***************************************************************************)
\* frames of one kind in a row in the stream the peer writes to stdin
MaxFrames == 2
\* send() calls the owner makes
MaxSends == 2
\* close() calls the owner makes
MaxCloseCalls == 2
\* start() calls the owner makes
MaxStartCalls == 2
\* error events stdin emits
MaxStdinErrors == 1
\* 'data' events are counted up to this many: none, one, several
Several == 2
\* registerTool/registerPrompt/registerResource calls on the composite proxy
MaxRegisterCalls == 3
\* start() and close() calls on the composite proxy
MaxLifecycleCalls == 2
\* send() calls on the tunnel client transport
MaxTunnelSends == 2
\* unexpected closures of the tunnel's WebSocket
MaxSocketLosses == 2
\* lines each output stream of the child yields
MaxLines == 2

(***************************************************************************)
(* The messages and the frames of the model.                               *)
(***************************************************************************)
MsgId2 == JObj(<< <<"id", JNum(2)>> >>)
MsgId3 == JObj(<< <<"id", JNum(3)>> >>)
MsgOk == JObj(<< <<"id", JNum(1)>>, <<"ok", JTrue>> >>)
MsgText == JObj(<< <<"m", JStr("@")>> >>)
Messages == {MsgId2, MsgId3, MsgOk, MsgText}

\* What the peer writes: a frame is its kind, the message it carries (JNull
\* when it carries none) and its bytes.
Frame(kind, message, bytes) == [kind |-> kind, msg |-> message, bytes |-> bytes]

\* A message framed the way send() frames it
ContentLengthFrame(m) == Frame("content-length", m, Utf8Encode(sendOutput(m, "content-length")))
NewlineFrame(m) == Frame("newline", m, Utf8Encode(sendOutput(m, "newline")))
\* A line with the optional CR before its LF
CrLfFrame(m) == Frame("newline", m, Utf8Encode(JsonStringify(m)) \o CR \o LF)
\* Lines that are not JSON
GarbageLine == Frame("garbage", JNull, "{\"id\":" \o LF)
\* A line that is not JSON and does not begin like JSON
TextLine == Frame("garbage", JNull, "oops" \o LF)
\* Empty and white-space-only lines
EmptyLine == Frame("blank", JNull, LF)
SpaceLine == Frame("blank", JNull, " " \o CR \o LF)
\* What may precede the first frame: the UTF-8 BOM and white space
Leading(bytes) == Frame("leading", JNull, bytes)
Leadings ==
    {Leading("<=>"), Leading(" "), Leading(LF), Leading(CR \o LF), Leading("<=>" \o " " \o LF)}
\* The two delimiters that end a header block
CrLfCrLf == CR \o LF \o CR \o LF
LfLf == LF \o LF
\* A message under a Content-Length header that ends with LF LF
LfFrame(m) ==
    Frame("content-length", m,
          "Content-Length: " \o ToDecimal(ByteLength(JsonStringify(m))) \o LfLf
              \o Utf8Encode(JsonStringify(m)))
\* A header block without a Content-Length line of digits, and its delimiter
InvalidBlock(headerText, delimiter) == Frame("invalid-header", JNull, headerText \o delimiter)
InvalidBlocks ==
    {InvalidBlock(h, d) : h \in {"X-Foo: 1", "Content-Length: abc"}, d \in {CrLfCrLf, LfLf}}
\* The example of the design document: a header that announces 15 bytes
\* before a body of 18
Example15 ==
    Frame("example-15", MsgOk, "Content-Length: 15" \o CR \o LF \o CR \o LF \o "{\"id\":1,\"ok\":true}")

RECURSIVE Concat(_)
Concat(fs) == IF Len(fs) = 0 THEN "" ELSE fs[1].bytes \o Concat(Tail(fs))

\* The sequences of 1..n frames drawn from F
StreamsOf(F, n) == UNION {[1..k -> F] : k \in 1..n}

(***************************************************************************)
(* What the owner of the transport does in a run: how many start(), send() *)
(* and close() calls it makes at most and which messages it sends; and how *)
(* many error events stdin emits at most.                                  *)
(***************************************************************************)
Plan(nStart, nSend, outbox, nClose, nError) ==
    [starts |-> nStart, sends |-> nSend, outbox |-> outbox, closes |-> nClose,
     stdinErrors |-> nError, closeIn |-> {}]

\* The owner starts the transport and listens
Listener == Plan(1, 0, {}, 0, 0)
\* The owner makes each call once
Once == Plan(1, 1, {MsgId2}, 1, 1)
\* The owner sends
Sender == Plan(1, MaxSends, {MsgText}, 0, 0)
\* The owner starts and closes repeatedly, and stdin fails
Closer == Plan(MaxStartCalls, 0, {}, MaxCloseCalls, MaxStdinErrors)
\* The owner starts the transport and calls close() in a callback
ClosesIn(cb) == [Listener EXCEPT !.closeIn = {cb}]

Scenario(fs, plan) == [frames |-> fs, plan |-> plan]

(***************************************************************************)
(* The transport, its two streams and its owner.                           *)
(***************************************************************************)
VARIABLES
    started,          \* this.started
    framingMode,      \* this.framingMode ("undefined" until detected)
    buffer,           \* this.buffer
    dataListeners,    \* times handleData is registered for stdin's 'data'
    errorListeners,   \* times handleError is registered for stdin's 'error'
    stdinFlowing,     \* stdin.readableFlowing: "null", "true" or "false"
    frames,           \* the frames the peer writes to stdin
    input,            \* their bytes
    pos,              \* how many of them stdin has emitted as 'data'
    plan,             \* what the owner does in this run
    log,              \* the callbacks invoked so far, in order
    stdout,           \* the outputs handed to stdout.write, in order
    sends,            \* one record per send() call, in call order
    needDrain,        \* stdout owes a 'drain' event
    calls,            \* how often the owner and stdin have acted
    proxyPlan,        \* what the owner of the composite proxy does in this run
    registry,         \* per underlying proxy: the capabilities registered, in order
    registerCalls,    \* the registerTool/Prompt/Resource calls on the composite proxy
    proxyCalls,       \* per underlying proxy: its start() and close() calls
    compositeCalls,   \* the start() and close() calls on the composite proxy
    tunnelState,      \* the state of the tunnel client transport
    sockets,          \* the WebSockets it has opened, each with the frames sent on it
    tunnelQueue,      \* messages passed to send() that wait for the connection
    tunnelCalls,      \* how often send() was called and the socket was lost
    options,          \* what streamProcessOutput is called with
    run,              \* the locals of one streamProcessOutput call and its promise
    child,            \* the child process: running or closed, and its listeners
    abortSignal,      \* the AbortSignal: aborted or not, and whether it is listened to
    streams,          \* per output stream of the child: its read loop, the lines it
                      \* yielded to onLine and those the loop left unread
    kills,            \* the child.kill(...) calls made, in order
    forwarded         \* the onStdoutLine/onStderrLine calls made, in order

transportVars == <<started, framingMode, buffer, dataListeners, errorListeners, stdinFlowing,
                   frames, input, pos, plan, log, stdout, sends, needDrain, calls>>
proxyVars == <<proxyPlan, registry, registerCalls, proxyCalls, compositeCalls>>
tunnelVars == <<tunnelState, sockets, tunnelQueue, tunnelCalls>>
processVars == <<options, run, child, abortSignal, streams, kills, forwarded>>
vars == <<transportVars, proxyVars, tunnelVars, processVars>>

\* The composite proxy and its two underlying proxies after construction
Proxies == {"stdio", "tunnel"}

\* What the owner of the composite proxy does at most: register calls, and
\* start() and close() calls
ProxyPlan(nRegister, nLifecycle) == [registers |-> nRegister, lifecycle |-> nLifecycle]
Idle == ProxyPlan(0, 0)

InitProxiesOf(plans) ==
    /\ proxyPlan \in plans
    /\ registry = [p \in Proxies |-> <<>>]
    /\ registerCalls = <<>>
    /\ proxyCalls = [p \in Proxies |-> <<>>]
    /\ compositeCalls = <<>>

\* The transport after construction, in one of the given scenarios
InitTransportOf(scenarios) ==
    /\ started = FALSE
    /\ framingMode = "undefined"
    /\ buffer = ""
    /\ dataListeners = 0
    /\ errorListeners = 0
    /\ stdinFlowing = "null"
    /\ \E sc \in scenarios :
          /\ frames = sc.frames
          /\ input = Concat(sc.frames)
          /\ plan = sc.plan
    /\ pos = 0
    /\ log = <<>>
    /\ stdout = <<>>
    /\ sends = <<>>
    /\ needDrain = FALSE
    /\ calls = [start |-> 0, startRejected |-> 0, close |-> 0, stdinError |-> 0, data |-> 0]

\* The tunnel client transport after construction
InitTunnel ==
    /\ tunnelState = "idle"
    /\ sockets = <<>>
    /\ tunnelQueue = <<>>
    /\ tunnelCalls = [send |-> 0, lost |-> 0]

\* streamProcessOutput reads the two output streams of the child
Streams == {"stdout", "stderr"}

\* What a call is made with: whether child.stdout and child.stderr exist,
\* options.signal ("none", "notAborted" or "aborted" at the call) and
\* whether child.child exists
Options(hasStreams, signal, hasChild) ==
    [streams |-> hasStreams, signal |-> signal, childProcess |-> hasChild]
\* The options of a run in which streamProcessOutput is left alone
NoCall == Options(TRUE, "none", TRUE)

\* How a child ends: <<code, signal>> as 'close' reports them
Exits == {<<"0", "null">>, <<"1", "null">>, <<"null", "SIGINT">>, <<"null", "SIGKILL">>}

\* The locals of the call before it is made; promise is the state of the
\* promise the call returns, settlements how often that state was decided
NotCalled ==
    [promise |-> "none", settlements |-> 0, settled |-> FALSE, stopRequested |-> FALSE,
     killHandle |-> "undefined", timeoutHandle |-> "undefined", abortHandler |-> "undefined",
     readers |-> [s \in Streams |-> "none"]]

\* The process of the given options before the call
InitProcessOf(calls_) ==
    /\ options \in calls_
    /\ run = NotCalled
    /\ child = [state |-> "running", code |-> "null", signal |-> "null",
                onError |-> FALSE, onClose |-> FALSE]
    /\ abortSignal = (options.signal = "aborted")
    /\ streams = [s \in Streams |-> [loop |-> "none", lines |-> 0, unread |-> 0]]
    /\ kills = <<>>
    /\ forwarded = <<>>

\* A transport in one of the given scenarios, the composite proxy and the
\* tunnel left alone, streamProcessOutput not called
InitOf(scenarios) ==
    InitTransportOf(scenarios) /\ InitProxiesOf({Idle}) /\ InitTunnel /\ InitProcessOf({NoCall})

\* start() without the test of this.started
startUnguarded ==
    /\ calls.start < plan.starts
    /\ calls' = [calls EXCEPT !.start = @ + 1]
    /\ started' = TRUE
    /\ dataListeners' = dataListeners + 1
    /\ errorListeners' = errorListeners + 1
    /\ stdinFlowing' = IF stdinFlowing = "false" THEN "false" ELSE "true"
    /\ UNCHANGED <<proxyVars, tunnelVars, processVars, framingMode, buffer, frames, input, pos, plan, log, stdout, sends,
                   needDrain>>

\* start()
start ==
    /\ calls.start < plan.starts
    /\ IF started
       THEN /\ calls' = [calls EXCEPT !.start = @ + 1, !.startRejected = @ + 1]
            /\ UNCHANGED <<started, dataListeners, errorListeners, stdinFlowing>>
       ELSE /\ calls' = [calls EXCEPT !.start = @ + 1]
            /\ started' = TRUE
            /\ dataListeners' = dataListeners + 1
            /\ errorListeners' = errorListeners + 1
            \* a 'data' listener starts the flow unless pause() stopped it
            /\ stdinFlowing' = IF stdinFlowing = "false" THEN "false" ELSE "true"
    /\ UNCHANGED <<proxyVars, tunnelVars, processVars, framingMode, buffer, frames, input, pos, plan, log, stdout, sends, needDrain>>

\* send resolving at once, whatever stdout.write returned
sendResolvesAtOnce(message, wrote) ==
    /\ Len(sends) < plan.sends
    /\ message \in plan.outbox
    /\ stdout' = Append(stdout, Utf8Encode(sendOutput(message, framingMode)))
    /\ sends' = Append(sends, [msg |-> message, mode |-> framingMode, wrote |-> wrote,
                               resolved |-> TRUE])
    /\ needDrain' = (needDrain \/ ~wrote)
    /\ UNCHANGED <<proxyVars, tunnelVars, processVars, started, framingMode, buffer, dataListeners, errorListeners, stdinFlowing,
                   frames, input, pos, plan, log, calls>>

\* send(message); wrote is what stdout.write returns
send(message, wrote) ==
    /\ Len(sends) < plan.sends
    /\ message \in plan.outbox
    /\ stdout' = Append(stdout, Utf8Encode(sendOutput(message, framingMode)))
    /\ sends' = Append(sends, [msg |-> message, mode |-> framingMode, wrote |-> wrote,
                               resolved |-> wrote])
    /\ needDrain' = (needDrain \/ ~wrote)
    /\ UNCHANGED <<proxyVars, tunnelVars, processVars, started, framingMode, buffer, dataListeners, errorListeners, stdinFlowing,
                   frames, input, pos, plan, log, calls>>

\* stdout emits 'drain': every listener send() left with once('drain') runs
StdoutDrain ==
    /\ needDrain
    /\ needDrain' = FALSE
    /\ sends' = [i \in 1..Len(sends) |-> [sends[i] EXCEPT !.resolved = TRUE]]
    /\ UNCHANGED <<proxyVars, tunnelVars, processVars, started, framingMode, buffer, dataListeners, errorListeners, stdinFlowing,
                   frames, input, pos, plan, log, stdout, calls>>

\* The transport as the record the decoder works on
This ==
    [buffer |-> buffer, framingMode |-> framingMode, log |-> log,
     dataListeners |-> dataListeners, errorListeners |-> errorListeners,
     stdinFlowing |-> stdinFlowing, closes |-> calls.close, closeIn |-> plan.closeIn]

\* The transport is left as the record t says
Becomes(t) ==
    /\ buffer' = t.buffer
    /\ framingMode' = t.framingMode
    /\ log' = t.log
    /\ dataListeners' = t.dataListeners
    /\ errorListeners' = t.errorListeners
    /\ stdinFlowing' = t.stdinFlowing

\* close()
close ==
    /\ calls.close < plan.closes
    /\ Becomes(closeOn(This))
    /\ calls' = [calls EXCEPT !.close = closeOn(This).closes]
    /\ UNCHANGED <<proxyVars, tunnelVars, processVars, started, frames, input, pos, plan, stdout, sends, needDrain>>

\* The chunk handed to each of the k registered handleData listeners in turn
RECURSIVE HandleDataTimes(_, _, _)
HandleDataTimes(t, chunk, k) ==
    IF k = 0 THEN t ELSE HandleDataTimes(handleData(t, chunk), chunk, k - 1)

\* stdin emits 'data' with the next n bytes of the stream
StdinData(n) ==
    /\ stdinFlowing = "true"
    /\ dataListeners > 0
    /\ pos + n <= Len(input)
    /\ LET t == HandleDataTimes(This, Slice(input, pos, pos + n), dataListeners)
       IN  /\ Becomes(t)
           /\ calls' = [calls EXCEPT !.data = IF @ < Several THEN @ + 1 ELSE @,
                                     !.close = t.closes]
    /\ pos' = pos + n
    /\ UNCHANGED <<proxyVars, tunnelVars, processVars, started, frames, input, plan, stdout, sends, needDrain>>

\* stdin emits 'error'
StdinError ==
    /\ calls.stdinError < plan.stdinErrors
    /\ errorListeners > 0
    /\ Becomes(handleError(This, "EIO"))
    /\ calls' = [calls EXCEPT !.stdinError = @ + 1, !.close = handleError(This, "EIO").closes]
    /\ UNCHANGED <<proxyVars, tunnelVars, processVars, started, frames, input, pos, plan, stdout, sends, needDrain>>

(***************************************************************************)
(* The single-transport proxies behind the composite (StdioMcpServerProxy  *)
(* and TunnelMcpServerProxy), by their contract: a registration under a    *)
(* name already taken, or with a configuration the proxy does not accept,  *)
(* throws and leaves the registry as it is; start() and close() return     *)
(* promises that settle later; a second start() fails; close() is          *)
(* idempotent and may fail.                                                *)
(***************************************************************************)
Kinds == {"tool", "prompt", "resource"}
Names == {"t1", "t2"}
Configs == {"valid", "invalid"}

Entry(kind, name) == [kind |-> kind, name |-> name]

\* The names a registry holds
Registered(reg) == {reg[i] : i \in 1..Len(reg)}

\* proxy.registerTool / registerPrompt / registerResource on registry reg
ProxyRegister(reg, kind, name, config) ==
    IF config = "invalid" \/ Entry(kind, name) \in Registered(reg)
    THEN [threw |-> TRUE, reg |-> reg]
    ELSE [threw |-> FALSE, reg |-> Append(reg, Entry(kind, name))]

\* A call of start() or close() on a proxy: the operation, the composite call
\* that made it, and the state of the promise it returned
Call(op, by, state) == [op |-> op, by |-> by, state |-> state]

\* proxy.start(): the promise of a second start() is rejected
ProxyStart(cs, by) ==
    Append(cs, Call("start", by,
                    IF \E i \in 1..Len(cs) : cs[i].op = "start" THEN "rejected" ELSE "pending"))

\* proxy.close()
ProxyClose(cs, by) == Append(cs, Call("close", by, "pending"))

\* A pending start() or close() of proxy p settles
ProxySettles(p, i, outcome) ==
    /\ i \in 1..Len(proxyCalls[p])
    /\ proxyCalls[p][i].state = "pending"
    /\ proxyCalls' = [proxyCalls EXCEPT ![p][i].state = outcome]
    /\ UNCHANGED <<transportVars, tunnelVars, processVars, proxyPlan, registry, registerCalls, compositeCalls>>

(***************************************************************************)
(* CompositeMcpServerProxy.                                                *)
(***************************************************************************)
\* Promise.all over promises in the given states
PromiseAll(states) ==
    IF "rejected" \in states THEN "rejected"
    ELSE IF states = {"fulfilled"} THEN "fulfilled"
    ELSE "pending"

\* A registration replicated to the proxies in the given order; a proxy that
\* throws ends the call, the proxies after it are not called
RECURSIVE Replicate(_, _, _, _, _)
Replicate(regs, order, kind, name, config) ==
    IF Len(order) = 0 THEN [threw |-> FALSE, regs |-> regs]
    ELSE LET r == ProxyRegister(regs[Head(order)], kind, name, config)
         IN  IF r.threw THEN [threw |-> TRUE, regs |-> regs]
             ELSE Replicate([regs EXCEPT ![Head(order)] = r.reg], Tail(order), kind, name, config)

RegisterCall(kind, name, config, threw) ==
    [kind |-> kind, name |-> name, config |-> config, threw |-> threw]

\* A register call of the composite that reaches the given proxies
CompositeRegister(order, kind, name, config) ==
    /\ Len(registerCalls) < proxyPlan.registers
    /\ LET r == Replicate(registry, order, kind, name, config)
       IN  /\ registry' = r.regs
           /\ registerCalls' = Append(registerCalls, RegisterCall(kind, name, config, r.threw))
    /\ UNCHANGED <<transportVars, tunnelVars, processVars, proxyPlan, proxyCalls, compositeCalls>>

\* registerTool that forgets the tunnel proxy
registerToolStdioOnly(name, config) == CompositeRegister(<<"stdio">>, "tool", name, config)

registerTool(name, config) == CompositeRegister(<<"stdio", "tunnel">>, "tool", name, config)

\* registerPrompt that forgets the stdio proxy
registerPromptTunnelOnly(name, config) == CompositeRegister(<<"tunnel">>, "prompt", name, config)

registerPrompt(name, config) == CompositeRegister(<<"stdio", "tunnel">>, "prompt", name, config)

registerResource(name, config) ==
    CompositeRegister(<<"stdio", "tunnel">>, "resource", name, config)

\* The proxy calls that composite call i made
CallsBy(i) ==
    UNION {{proxyCalls[p][j] : j \in {k \in 1..Len(proxyCalls[p]) : proxyCalls[p][k].by = i}} :
           p \in Proxies}

\* start() that starts the stdio proxy and leaves the tunnel proxy for later
CompositeStartStdioFirst ==
    /\ Len(compositeCalls) < proxyPlan.lifecycle
    /\ compositeCalls' = Append(compositeCalls, Call("start", 0, "pending"))
    /\ proxyCalls' = [proxyCalls EXCEPT
                        !["stdio"] = ProxyStart(@, Len(compositeCalls) + 1)]
    /\ UNCHANGED <<transportVars, tunnelVars, processVars, proxyPlan, registry, registerCalls>>

\* start(): both proxies are started before the first await
CompositeStart ==
    /\ Len(compositeCalls) < proxyPlan.lifecycle
    /\ compositeCalls' = Append(compositeCalls, Call("start", 0, "pending"))
    /\ proxyCalls' = [p \in Proxies |-> ProxyStart(proxyCalls[p], Len(compositeCalls) + 1)]
    /\ UNCHANGED <<transportVars, tunnelVars, processVars, proxyPlan, registry, registerCalls>>

\* close(): both proxies are closed before the first await
CompositeClose ==
    /\ Len(compositeCalls) < proxyPlan.lifecycle
    /\ compositeCalls' = Append(compositeCalls, Call("close", 0, "pending"))
    /\ proxyCalls' = [p \in Proxies |-> ProxyClose(proxyCalls[p], Len(compositeCalls) + 1)]
    /\ UNCHANGED <<transportVars, tunnelVars, processVars, proxyPlan, registry, registerCalls>>

\* await Promise.all([...]) of composite call i settles: the promise that
\* start() or close() returned is settled the same way
CompositeSettles(i) ==
    /\ i \in 1..Len(compositeCalls)
    /\ compositeCalls[i].state = "pending"
    /\ PromiseAll({c.state : c \in CallsBy(i)}) # "pending"
    /\ compositeCalls' =
          [compositeCalls EXCEPT ![i].state = PromiseAll({c.state : c \in CallsBy(i)})]
    /\ UNCHANGED <<transportVars, tunnelVars, processVars, proxyPlan, registry, registerCalls, proxyCalls>>

NextProxies ==
    \/ \E name \in Names, config \in Configs : registerTool(name, config)
    \/ \E name \in Names, config \in Configs : registerPrompt(name, config)
    \/ \E name \in Names, config \in Configs : registerResource(name, config)
    \/ CompositeStart
    \/ CompositeClose
    \/ \E p \in Proxies, i \in 1..MaxLifecycleCalls, outcome \in {"fulfilled", "rejected"} :
          ProxySettles(p, i, outcome)
    \/ \E i \in 1..MaxLifecycleCalls : CompositeSettles(i)

(***************************************************************************)
(* The tunnel client transport, by its state machine:                      *)
(*   idle -> connecting -> handshaking -> connected -> reconnecting|closed *)
(* A send() while the transport is connecting, handshaking or reconnecting *)
(* is either refused or kept until the transport is connected.             *)
(***************************************************************************)
\* The handshake object
Handshake ==
    JObj(<< <<"projectRoot", JStr("/app")>>, <<"devServerUrl", JStr("http://localhost:8081")>> >>)

Socket(state, sent) == [state |-> state, sent |-> sent]

\* The sockets with the newest one changed
WithSocket(state, sent) == [sockets EXCEPT ![Len(sockets)] = Socket(state, sent)]

\* start(): opens a WebSocket
TunnelStart ==
    /\ tunnelState = "idle"
    /\ tunnelState' = "connecting"
    /\ sockets' = Append(sockets, Socket("connecting", <<>>))
    /\ UNCHANGED <<transportVars, proxyVars, processVars, tunnelQueue, tunnelCalls>>

\* The socket opens, the messages kept for it going out ahead of the handshake
TunnelSocketOpenFlushesFirst ==
    /\ tunnelState = "connecting"
    /\ tunnelState' = "handshaking"
    /\ sockets' = WithSocket("open", [i \in 1..Len(tunnelQueue) |-> JsonStringify(tunnelQueue[i])]
                                      \o <<JsonStringify(Handshake)>>)
    /\ tunnelQueue' = <<>>
    /\ UNCHANGED <<transportVars, proxyVars, processVars, tunnelCalls>>

\* The socket opens: the client sends the handshake at once
TunnelSocketOpen ==
    /\ tunnelState = "connecting"
    /\ tunnelState' = "handshaking"
    /\ sockets' = WithSocket("open", <<JsonStringify(Handshake)>>)
    /\ UNCHANGED <<transportVars, proxyVars, processVars, tunnelQueue, tunnelCalls>>

\* The handshake is acknowledged, or needs no acknowledgement
TunnelHandshakeDone ==
    /\ tunnelState = "handshaking"
    /\ tunnelState' = "connected"
    /\ sockets' = WithSocket("open", sockets[Len(sockets)].sent
                                      \o [i \in 1..Len(tunnelQueue) |-> JsonStringify(tunnelQueue[i])])
    /\ tunnelQueue' = <<>>
    /\ UNCHANGED <<transportVars, proxyVars, processVars, tunnelCalls>>

\* send(message); kept says whether a transport that is not connected yet
\* keeps the message or refuses it
TunnelSend(message, kept) ==
    /\ tunnelCalls.send < MaxTunnelSends
    /\ tunnelCalls' = [tunnelCalls EXCEPT !.send = @ + 1]
    /\ IF tunnelState = "connected"
       THEN /\ sockets' = WithSocket("open", Append(sockets[Len(sockets)].sent,
                                                    JsonStringify(message)))
            /\ UNCHANGED tunnelQueue
       ELSE /\ tunnelQueue' = IF kept /\ tunnelState \in {"connecting", "handshaking", "reconnecting"}
                              THEN Append(tunnelQueue, message) ELSE tunnelQueue
            /\ UNCHANGED sockets
    /\ UNCHANGED <<transportVars, proxyVars, processVars, tunnelState>>

\* The socket closes though close() was not called
TunnelSocketLost ==
    /\ tunnelState \in {"connecting", "handshaking", "connected"}
    /\ tunnelCalls.lost < MaxSocketLosses
    /\ tunnelCalls' = [tunnelCalls EXCEPT !.lost = @ + 1]
    /\ tunnelState' = "reconnecting"
    /\ sockets' = WithSocket("closed", sockets[Len(sockets)].sent)
    /\ UNCHANGED <<transportVars, proxyVars, processVars, tunnelQueue>>

\* The transport connects again, with a new socket
TunnelReconnect ==
    /\ tunnelState = "reconnecting"
    /\ tunnelState' = "connecting"
    /\ sockets' = Append(sockets, Socket("connecting", <<>>))
    /\ UNCHANGED <<transportVars, proxyVars, processVars, tunnelQueue, tunnelCalls>>

\* close(): releases the socket
TunnelClose ==
    /\ tunnelState # "closed"
    /\ tunnelState' = "closed"
    /\ sockets' = IF Len(sockets) = 0 THEN sockets
                  ELSE WithSocket("closed", sockets[Len(sockets)].sent)
    /\ tunnelQueue' = <<>>
    /\ UNCHANGED <<transportVars, proxyVars, processVars, tunnelCalls>>

NextTunnel ==
    \/ TunnelStart
    \/ TunnelSocketOpen
    \/ TunnelHandshakeDone
    \/ \E m \in {MsgId2, MsgId3}, kept \in BOOLEAN : TunnelSend(m, kept)
    \/ TunnelSocketLost
    \/ TunnelReconnect
    \/ TunnelClose

(***************************************************************************)
(* streamProcessOutput(child, options): one call and the promise it        *)
(* returns, with the child process, its two output streams, the            *)
(* AbortSignal and the two timers around it.                               *)
(***************************************************************************)
\* child.kill(sig), with who called it and the state of the promise then
Kill(sig, by, r) == [sig |-> sig, by |-> by, promise |-> r.promise]

\* cleanup that leaves the SIGKILL timer running
cleanupKeepsKillTimer(r) ==
    [r EXCEPT !.readers = [s \in Streams |-> IF @[s] = "open" THEN "closed" ELSE @[s]],
              !.timeoutHandle = IF @ = "armed" THEN "cleared" ELSE @,
              !.abortHandler = IF @ = "listening" THEN "removed" ELSE @]

cleanup(r) ==
    [r EXCEPT !.readers = [s \in Streams |-> IF @[s] = "open" THEN "closed" ELSE @[s]],
              !.timeoutHandle = IF @ = "armed" THEN "cleared" ELSE @,
              !.killHandle = IF @ = "armed" THEN "cleared" ELSE @,
              !.abortHandler = IF @ = "listening" THEN "removed" ELSE @]

\* resolve() / reject(error) of the promise
Settle(r, outcome) ==
    IF r.promise = "pending"
    THEN [r EXCEPT !.promise = outcome, !.settlements = @ + 1]
    ELSE r

settleSuccess(r) ==
    IF r.settled THEN r ELSE Settle(cleanup([r EXCEPT !.settled = TRUE]), "resolved")

settleError(r) ==
    IF r.settled THEN r ELSE Settle(cleanup([r EXCEPT !.settled = TRUE]), "rejected")

\* The for-await loop of forwardLines when a line arrives: it was always
\* handed to onLine
forwardLineUnguarded(r) == "onLine"

\* The for-await loop of forwardLines when a line arrives
forwardLine(r) == IF r.settled THEN "break" ELSE "onLine"

\* The 'close' handler ignoring that a stop was requested
closeHandlerIgnoresStop(r, code, signal) ==
    IF code # "0" /\ signal = "null" THEN settleError(r) ELSE settleSuccess(r)

\* childProcess.once('close', (code, signal) => ...)
closeHandler(r, code, signal) ==
    IF ~r.stopRequested /\ code # "0" /\ signal = "null" THEN settleError(r) ELSE settleSuccess(r)

\* The abort handler that does not mark the stop as requested
abortHandlerKeepsFlag(r, ks) ==
    IF ~r.settled
    THEN [run |-> r, kills |-> Append(ks, Kill("SIGINT", "abortHandler", r))]
    ELSE [run |-> r, kills |-> ks]

\* abortHandler, the listener of the signal's 'abort'
abortHandler(r, ks) ==
    IF ~r.settled
    THEN [run |-> [r EXCEPT !.stopRequested = TRUE],
          kills |-> Append(ks, Kill("SIGINT", "abortHandler", r))]
    ELSE [run |-> r, kills |-> ks]

\* The call itself, up to the return of the promise
streamProcessOutput ==
    /\ run.promise = "none"
    /\ IF ~options.streams \/ options.signal = "aborted"
       THEN /\ kills' = Append(kills, Kill("SIGTERM", "streamProcessOutput", run))
            /\ run' = [run EXCEPT !.promise = "rejected", !.settlements = @ + 1]
            /\ UNCHANGED <<child, streams>>
       ELSE LET forwarding == [run EXCEPT !.promise = "pending",
                                          !.readers = [s \in Streams |-> "open"]]
            IN  /\ streams' = [s \in Streams |-> [streams[s] EXCEPT !.loop = "reading"]]
                /\ IF ~options.childProcess
                   THEN /\ run' = settleError(forwarding)
                        /\ UNCHANGED child
                   ELSE /\ child' = [child EXCEPT !.onError = TRUE, !.onClose = TRUE]
                        /\ run' = [forwarding EXCEPT
                                      !.abortHandler = IF options.signal = "none" THEN @
                                                       ELSE "listening",
                                      !.killHandle = "armed",
                                      !.timeoutHandle = "armed"]
                /\ UNCHANGED kills
    /\ UNCHANGED <<transportVars, proxyVars, tunnelVars, options, abortSignal, forwarded>>

\* The reader of a stream yields a line to the loop of forwardLines; lines
\* the reader had buffered are yielded after reader.close() too
StreamLine(s) ==
    /\ streams[s].loop = "reading"
    /\ streams[s].lines < MaxLines
    /\ IF forwardLine(run) = "break"
       THEN /\ streams' = [streams EXCEPT ![s].loop = "done", ![s].unread = @ + 1]
            /\ run' = [run EXCEPT !.readers[s] = "closed"]
            /\ UNCHANGED forwarded
       ELSE /\ streams' = [streams EXCEPT ![s].lines = @ + 1]
            /\ forwarded' = Append(forwarded, [stream |-> s, promise |-> run.promise])
            /\ UNCHANGED run
    /\ UNCHANGED <<transportVars, proxyVars, tunnelVars, options, child, abortSignal, kills>>

\* Reading a stream fails: the catch and the finally of forwardLines
StreamError(s) ==
    /\ streams[s].loop = "reading"
    /\ streams' = [streams EXCEPT ![s].loop = "done"]
    /\ run' = [settleError(run) EXCEPT !.readers[s] = "closed"]
    /\ UNCHANGED <<transportVars, proxyVars, tunnelVars, options, child, abortSignal, kills, forwarded>>

\* A stream ends or its reader was closed: the loop ends, then the finally
StreamEnd(s) ==
    /\ streams[s].loop = "reading"
    /\ streams' = [streams EXCEPT ![s].loop = "done"]
    /\ run' = [run EXCEPT !.readers[s] = "closed"]
    /\ UNCHANGED <<transportVars, proxyVars, tunnelVars, options, child, abortSignal, kills, forwarded>>

\* The child process emits 'error'
ChildError ==
    /\ child.onError
    /\ child' = [child EXCEPT !.onError = FALSE]
    /\ run' = settleError(run)
    /\ UNCHANGED <<transportVars, proxyVars, tunnelVars, options, abortSignal, streams, kills, forwarded>>

\* The child process ends and emits 'close'
ChildClose(exit) ==
    /\ run.promise # "none"
    /\ options.childProcess
    /\ child.state = "running"
    /\ child' = [child EXCEPT !.state = "closed", !.code = exit[1], !.signal = exit[2],
                              !.onClose = FALSE]
    /\ run' = IF child.onClose THEN closeHandler(run, exit[1], exit[2]) ELSE run
    /\ UNCHANGED <<transportVars, proxyVars, tunnelVars, options, abortSignal, streams, kills, forwarded>>

\* The owner of the AbortController calls abort()
AbortFires ==
    /\ run.promise # "none"
    /\ options.signal = "notAborted"
    /\ ~abortSignal
    /\ abortSignal' = TRUE
    /\ IF run.abortHandler = "listening"
       THEN /\ run' = abortHandler(run, kills).run
            /\ kills' = abortHandler(run, kills).kills
       ELSE UNCHANGED <<run, kills>>
    /\ UNCHANGED <<transportVars, proxyVars, tunnelVars, options, child, streams, forwarded>>

\* durationMs has elapsed: the callback of timeoutHandle
TimeoutFires ==
    /\ run.timeoutHandle = "armed"
    /\ run' = [run EXCEPT !.timeoutHandle = "fired", !.stopRequested = TRUE]
    /\ kills' = Append(kills, Kill("SIGINT", "timeoutHandle", run))
    /\ UNCHANGED <<transportVars, proxyVars, tunnelVars, options, child, abortSignal, streams, forwarded>>

\* durationMs + 1000 has elapsed: the callback of killHandle.  The timer
\* set for durationMs is due first.
KillFires ==
    /\ run.killHandle = "armed"
    /\ run.timeoutHandle # "armed"
    /\ run' = [run EXCEPT !.killHandle = "fired"]
    /\ kills' = Append(kills, Kill("SIGKILL", "killHandle", run))
    /\ UNCHANGED <<transportVars, proxyVars, tunnelVars, options, child, abortSignal, streams, forwarded>>

NextProcess ==
    \/ streamProcessOutput
    \/ \E s \in Streams : StreamLine(s)
    \/ \E s \in Streams : StreamError(s)
    \/ \E s \in Streams : StreamEnd(s)
    \/ ChildError
    \/ \E exit \in Exits : ChildClose(exit)
    \/ AbortFires
    \/ TimeoutFires
    \/ KillFires

Next ==
    \/ start
    \/ \E m \in Messages, wrote \in BOOLEAN : send(m, wrote)
    \/ StdoutDrain
    \/ close
    \/ \E n \in 1..(Len(input) - pos) : StdinData(n)
    \/ StdinError

(***************************************************************************)
(* The specifications: the same transport under different scenarios.       *)
(***************************************************************************)
\* A scenario in which every operation happens
Smoke == Scenario(<<NewlineFrame(MsgId2)>>, Once)

\* An owner that sends while one frame arrives, and an owner that starts and
\* closes repeatedly while one frame or two arrive, in either format
EitherFormat == {ContentLengthFrame(MsgId2), NewlineFrame(MsgId3)}
LifecycleScenarios ==
    {Scenario(<<f>>, Sender) : f \in EitherFormat}
    \cup {Scenario(<<f>>, Closer) : f \in EitherFormat}
    \cup {Scenario(<<f, g>>, Closer) : f \in EitherFormat, g \in EitherFormat}
    \cup {Smoke}

Init == InitOf(LifecycleScenarios)
Spec == Init /\ [][Next]_vars

\* One frame, as send() writes it or as the example gives it
SingleFrameScenarios ==
    {Scenario(<<f>>, Listener) :
        f \in {ContentLengthFrame(m) : m \in Messages} \cup {NewlineFrame(m) : m \in Messages}
              \cup {Example15}}
    \cup {Smoke}

InitSingleFrame == InitOf(SingleFrameScenarios)
SpecSingleFrame == InitSingleFrame /\ [][Next]_vars

\* A well-formed line, then up to MaxFrames lines: JSON, not JSON, empty
Lines == {NewlineFrame(MsgId3), CrLfFrame(MsgId2), GarbageLine, EmptyLine, SpaceLine}
LineScenarios ==
    {Scenario(<<NewlineFrame(MsgId2)>> \o rest, Listener) :
        rest \in {<<>>} \cup StreamsOf(Lines, MaxFrames)}
    \cup {Smoke}

InitLines == InitOf(LineScenarios)
SpecLines == InitLines /\ [][Next]_vars

\* Well-formed frames of one format
OrderedScenarios ==
    {Scenario(fs, Listener) :
        fs \in StreamsOf({ContentLengthFrame(MsgId2), ContentLengthFrame(MsgId3)}, MaxFrames)
               \cup StreamsOf({NewlineFrame(MsgId2), NewlineFrame(MsgId3)}, MaxFrames + 1)}
    \cup {Smoke}

InitOrdered == InitOf(OrderedScenarios)
SpecOrdered == InitOrdered /\ [][Next]_vars

\* A frame that establishes the mode, frames of the other format, and a frame
\* of the established format again
MixedScenarios ==
    {Scenario(<<ContentLengthFrame(MsgId2)>> \o mid \o <<ContentLengthFrame(MsgId2)>>, Listener) :
        mid \in StreamsOf({NewlineFrame(MsgId3)}, MaxFrames - 1)}
    \cup {Scenario(<<NewlineFrame(MsgId2)>> \o mid \o <<NewlineFrame(MsgId2)>>, Listener) :
        mid \in StreamsOf({ContentLengthFrame(MsgId3)}, MaxFrames - 1)}
    \cup {Smoke}

InitMixed == InitOf(MixedScenarios)
SpecMixed == InitMixed /\ [][Next]_vars

\* Lines of JSON with one line that is not JSON, at each position
OneBadLine(n, k, bad) ==
    [i \in 1..n |-> IF i = k THEN bad
                    ELSE IF i % 2 = 1 THEN NewlineFrame(MsgId2) ELSE NewlineFrame(MsgId3)]
MalformedScenarios ==
    UNION {{Scenario(OneBadLine(n, k, bad), Listener) : k \in 1..n, bad \in {GarbageLine, TextLine}} :
           n \in 2..(MaxFrames + 1)}
    \cup {Smoke}

InitMalformed == InitOf(MalformedScenarios)
SpecMalformed == InitMalformed /\ [][Next]_vars

\* Frames under Content-Length headers with one invalid header block, at each
\* position
OneInvalidBlock(n, k, bad, good) == [i \in 1..n |-> IF i = k THEN bad ELSE good]
InvalidHeaderScenarios ==
    UNION {{Scenario(OneInvalidBlock(n, k, bad, good), Listener) :
                k \in 1..n, bad \in InvalidBlocks,
                good \in {ContentLengthFrame(MsgId2), LfFrame(MsgId3)}} :
           n \in 2..MaxFrames}
    \cup {Smoke}

InitInvalidHeader == InitOf(InvalidHeaderScenarios)
SpecInvalidHeader == InitInvalidHeader /\ [][Next]_vars

\* A BOM or white space, then well-formed frames of one format
LeadingScenarios ==
    {Scenario(<<lead>> \o fs, Listener) :
        lead \in Leadings,
        fs \in StreamsOf({ContentLengthFrame(MsgId2)}, MaxFrames)
               \cup StreamsOf({NewlineFrame(MsgId3)}, MaxFrames)}
    \cup {Smoke}

InitLeading == InitOf(LeadingScenarios)
SpecLeading == InitLeading /\ [][Next]_vars

\* Frames under Content-Length headers, each with either delimiter
EitherDelimiter == {ContentLengthFrame(MsgId2), LfFrame(MsgId3)}
DelimiterScenarios ==
    {Scenario(fs, Listener) : fs \in StreamsOf(EitherDelimiter, MaxFrames)}
    \cup {Smoke}

InitDelimiters == InitOf(DelimiterScenarios)
SpecDelimiters == InitDelimiters /\ [][Next]_vars

\* Frames of either format and either delimiter
ChunkScenarios ==
    {Scenario(fs, Listener) :
        fs \in StreamsOf(EitherDelimiter \cup {NewlineFrame(MsgId2)}, MaxFrames)}
    \cup {Smoke}

InitChunks == InitOf(ChunkScenarios)
SpecChunks == InitChunks /\ [][Next]_vars

\* Several frames, one of them malformed, to an owner that calls close() in
\* its onmessage or in its onerror callback
ReentrantStreams ==
    {<<NewlineFrame(MsgId2), NewlineFrame(MsgId3)>>,
     <<NewlineFrame(MsgId2), GarbageLine, NewlineFrame(MsgId3)>>,
     <<ContentLengthFrame(MsgId2), ContentLengthFrame(MsgId3)>>,
     <<ContentLengthFrame(MsgId2), InvalidBlock("X-Foo: 1", CrLfCrLf), ContentLengthFrame(MsgId3)>>}
ReentrantScenarios ==
    {Scenario(fs, ClosesIn(cb)) : fs \in ReentrantStreams, cb \in {"onmessage", "onerror"}}
    \cup {Smoke}

InitReentrant == InitOf(ReentrantScenarios)
SpecReentrant == InitReentrant /\ [][Next]_vars

\* The composite proxy: an owner that registers, and an owner that starts and
\* closes while it registers once
ProxyPlans == {ProxyPlan(MaxRegisterCalls, 0), ProxyPlan(1, MaxLifecycleCalls)}
InitComposite ==
    /\ InitTransportOf({Scenario(<<>>, Plan(0, 0, {}, 0, 0))})
    /\ InitProxiesOf(ProxyPlans)
    /\ InitTunnel
    /\ InitProcessOf({NoCall})
SpecComposite == InitComposite /\ [][NextProxies]_vars

\* The tunnel client transport
InitTunnelClient ==
    /\ InitTransportOf({Scenario(<<>>, Plan(0, 0, {}, 0, 0))})
    /\ InitProxiesOf({Idle})
    /\ InitTunnel
    /\ InitProcessOf({NoCall})
SpecTunnel == InitTunnelClient /\ [][NextTunnel]_vars

\* streamProcessOutput, called in each of the ways it can be called
CallOptions ==
    {Options(hasStreams, signal, hasChild) :
        hasStreams \in BOOLEAN, signal \in {"none", "notAborted", "aborted"},
        hasChild \in BOOLEAN}
InitProcess ==
    /\ InitTransportOf({Scenario(<<>>, Plan(0, 0, {}, 0, 0))})
    /\ InitProxiesOf({Idle})
    /\ InitTunnel
    /\ InitProcessOf(CallOptions)
SpecProcess == InitProcess /\ [][NextProcess]_vars

(***************************************************************************)
(* Properties.                                                             *)
(***************************************************************************)
\* The transport is listening and nothing but stdin data has reached it
Undisturbed == calls.close = 0 /\ calls.stdinError = 0

\* stdin has emitted the whole stream
Delivered == pos = Len(input)

\* The number of bytes of the first k frames
FrameEnd(k) == Len(Concat(SubSeq(frames, 1, k)))

\* The number of frames whose last byte stdin has emitted
Completed ==
    LET done == {k \in 0..Len(frames) : FrameEnd(k) <= pos}
    IN  CHOOSE k \in done : \A j \in done : j <= k

\* Which callback each entry of the log is, and with which message
Calls == [i \in 1..Len(log) |-> <<log[i].cb, log[i].value>>]

\* The entries of a sequence that are in a set, in order
RECURSIVE Only(_, _)
Only(seq, S) ==
    IF Len(seq) = 0 THEN <<>>
    ELSE IF seq[1] \in S THEN <<seq[1]>> \o Only(Tail(seq), S)
    ELSE Only(Tail(seq), S)

OnCloseCalls == Cardinality({i \in 1..Len(log) : log[i].cb = "onclose"})
OnErrorCalls == Cardinality({i \in 1..Len(log) : log[i].cb = "onerror"})

\* C1: however often close() is called, onclose is invoked at most once in
\* total.  (close() has no path on which it throws or rejects.)
C1_OnCloseAtMostOnce == OnCloseCalls <= 1

\* C2: the bytes send() writes for a message M in either framing mode, given
\* to a fresh transport as stdin data, produce exactly one onmessage call
\* with M and no onerror call.
C2_FramingRoundTrip ==
    \A m \in Messages, mode \in {"content-length", "newline"} :
        (/\ input = Utf8Encode(sendOutput(m, mode))
         /\ Delivered
         /\ Undisturbed)
        => log = <<OnMessage(m)>>

C2_Witness ==
    /\ input = Utf8Encode(sendOutput(MsgText, "content-length"))
    /\ Delivered
    /\ calls.data = Several
    /\ log = <<OnMessage(MsgText)>>

\* C3: while bytes of a well-formed Content-Length frame are still missing,
\* whatever the chunks were, no callback has been invoked; once the chunk
\* with the last body byte has arrived onmessage has been invoked exactly
\* once, with the message, and onerror never.
C3_PartialFrameBuffering ==
    (/\ Len(frames) = 1
     /\ frames[1].kind = "content-length"
     /\ Undisturbed)
    => /\ ~Delivered => log = <<>>
       /\ Delivered => log = <<OnMessage(frames[1].msg)>>

\* The header cut inside its delimiter: CR LF CR has arrived, the last LF and
\* the body have not
C3_Witness ==
    /\ Len(frames) = 1
    /\ frames[1].kind = "content-length"
    /\ calls.data = Several
    /\ buffer = "Content-Length: 18" \o CR \o LF \o CR
    /\ log = <<>>

\* The callbacks the lines of the first k frames call for: onmessage for a
\* JSON line, onerror for a line that is not JSON, none for an empty line
RECURSIVE LineCalls(_)
LineCalls(k) ==
    IF k = 0 THEN <<>>
    ELSE LET f == frames[k]
         IN  CASE f.kind = "newline" -> Append(LineCalls(k - 1), <<"onmessage", f.msg>>)
               [] f.kind = "garbage" -> Append(LineCalls(k - 1), <<"onerror", JNull>>)
               [] OTHER -> LineCalls(k - 1)

\* C4: after a well-formed first line has established newline mode, every
\* JSON line causes exactly one onmessage, every other non-empty line exactly
\* one onerror, an empty or white-space-only line neither, and the callbacks
\* come in the order of the lines.
C4_NewlineResilience ==
    (/\ Len(frames) >= 1
     /\ frames[1].kind = "newline"
     /\ \A k \in 1..Len(frames) : frames[k].kind \in {"newline", "garbage", "blank"}
     /\ Undisturbed)
    => Calls = LineCalls(Completed)

\* A message, a line that is not JSON, a message
C4_Witness ==
    /\ Len(frames) = 3
    /\ frames[2].kind = "garbage"
    /\ frames[3].kind = "newline"
    /\ Delivered
    /\ Calls = <<<<"onmessage", MsgId2>>, <<"onerror", JNull>>, <<"onmessage", frames[3].msg>>>>

\* C5: once the framing mode is set, no step (stdin data in either format,
\* send, a stdin error, close, start) changes it.
C5_ModeStickiness == [][framingMode # "undefined" => framingMode' = framingMode]_vars

\* The mode was set, a frame of the other format arrived, stdin failed and
\* the transport was closed
C5_Witness ==
    /\ framingMode = "content-length"
    /\ Len(frames) = 2
    /\ frames[2].kind = "newline"
    /\ Delivered
    /\ calls.stdinError > 0
    /\ calls.close > 0

\* The format the first frame established
Established == frames[1].kind

\* The frames in the other format
Foreign == {k \in 2..Len(frames) : frames[k].kind # Established}

\* C6: once the stream is delivered, every message that arrived framed in
\* the other format has been reported through onerror and none of them has
\* been delivered through onmessage.
C6_OtherFormatFails ==
    (/\ Len(frames) >= 3
     /\ Foreign # {}
     /\ Delivered
     /\ Undisturbed)
    => /\ OnErrorCalls >= Cardinality(Foreign)
       /\ \A k \in Foreign : \A i \in 1..Len(log) : log[i].value # frames[k].msg

\* C7 as stated: the bytes of the example, a header announcing 15 bytes before
\* a body of 18, give one onmessage call with {id: 1, ok: true}.
C7_Example15 ==
    (/\ input = "Content-Length: 15" \o CR \o LF \o CR \o LF \o "{\"id\":1,\"ok\":true}"
     /\ Delivered
     /\ Undisturbed)
    => log = <<OnMessage(MsgOk)>>

\* C7 amended: the bytes Content-Length: 18 CR LF CR LF {"id":1,"ok":true}
\* give exactly one onmessage call, with {id: 1, ok: true}, and no onerror.
C7_Example18 ==
    (/\ input = "Content-Length: 18" \o CR \o LF \o CR \o LF \o "{\"id\":1,\"ok\":true}"
     /\ Delivered
     /\ Undisturbed)
    => log = <<OnMessage(MsgOk)>>

C7_Witness ==
    /\ input = "Content-Length: 18" \o CR \o LF \o CR \o LF \o "{\"id\":1,\"ok\":true}"
    /\ Delivered
    /\ calls.data = 1
    /\ buffer = ""
    /\ log = <<OnMessage(MsgOk)>>

LineOf(m) == Utf8Encode(JsonStringify(m)) \o LF
HeaderAndBodyOf(m) ==
    "Content-Length: " \o ToDecimal(Len(Utf8Encode(JsonStringify(m)))) \o CR \o LF \o CR \o LF
        \o Utf8Encode(JsonStringify(m))

\* C9: a send() writes the JSON text and a line feed if and only if the mode
\* detected at the time of the call is newline; in every other state it
\* writes the Content-Length header with the UTF-8 byte length, CR LF CR LF
\* and the JSON text.
C9_SendMirrorsMode ==
    [][Len(sends') = Len(sends) + 1 =>
         /\ Len(stdout') = Len(stdout) + 1
         /\ stdout'[Len(stdout')] =
              IF framingMode = "newline" THEN LineOf(sends'[Len(sends')].msg)
              ELSE HeaderAndBodyOf(sends'[Len(sends')].msg)]_vars

\* One send before the mode was detected and one after newline was
C9_Witness ==
    /\ Len(sends) = 2
    /\ sends[1].mode = "undefined"
    /\ sends[2].mode = "newline"
    /\ stdout = <<HeaderAndBodyOf(MsgText), LineOf(MsgText)>>

\* C10: every send() has written its frame exactly once and the frames are
\* in call order; a send whose write returned true is resolved; a send whose
\* write returned false is unresolved when send() returns and becomes
\* resolved only in a step in which stdout emits drain.
C10_SendOrdering ==
    /\ [](/\ Len(stdout) = Len(sends)
          /\ \A i \in 1..Len(sends) :
                /\ stdout[i] \in {LineOf(sends[i].msg), HeaderAndBodyOf(sends[i].msg)}
                /\ sends[i].wrote => sends[i].resolved)
    /\ [][/\ Len(sends') = Len(sends) + 1 =>
                /\ SubSeq(sends', 1, Len(sends)) = sends
                /\ SubSeq(stdout', 1, Len(stdout)) = stdout
                /\ sends'[Len(sends')].resolved = sends'[Len(sends')].wrote
          /\ \A i \in 1..Len(sends) :
                (~sends[i].resolved /\ sends'[i].resolved) => (needDrain /\ ~needDrain')]_vars

\* A second send made while the first waits for drain
C10_Witness ==
    /\ Len(sends) = 2
    /\ ~sends[1].wrote
    /\ ~sends[1].resolved
    /\ sends[2].wrote
    /\ sends[2].resolved

(***************************************************************************)
(* The composite proxy.                                                    *)
(***************************************************************************)
\* How often a registry holds an entry
Count(reg, e) == Cardinality({k \in 1..Len(reg) : reg[k] = e})

\* The register calls before call i that succeeded for the same capability
EarlierSuccess(i) ==
    {j \in 1..(i - 1) : /\ ~registerCalls[j].threw
                        /\ registerCalls[j].kind = registerCalls[i].kind
                        /\ registerCalls[j].name = registerCalls[i].name}

\* C11: a register call on the composite that succeeds leaves each of the two
\* proxies with exactly one registration of the capability; a later call for
\* the same capability throws, and no proxy ever holds a capability twice.
C11_CompositeFanOut ==
    /\ \A i \in 1..Len(registerCalls) :
          LET c == registerCalls[i]
          IN  /\ ~c.threw => \A p \in Proxies : Count(registry[p], Entry(c.kind, c.name)) = 1
              /\ EarlierSuccess(i) # {} => c.threw
    /\ \A p \in Proxies, kind \in Kinds, name \in Names :
          Count(registry[p], Entry(kind, name)) <= 1

\* registerTool("t1") succeeded, and registerTool("t1") again, with a
\* configuration the proxies accept, threw
C11_Witness ==
    /\ Len(registerCalls) = 2
    /\ registerCalls[1] = RegisterCall("tool", "t1", "valid", FALSE)
    /\ registerCalls[2] = RegisterCall("tool", "t1", "valid", TRUE)
    /\ \A p \in Proxies : registry[p] = <<Entry("tool", "t1")>>

C13_CloseWaitsForAll ==
    \A i \in 1..Len(compositeCalls) :
        (compositeCalls[i].op = "close" /\ compositeCalls[i].state # "pending")
        => \A c \in CallsBy(i) : c.state # "pending"

\* The proxy calls of kind op that composite call i made on proxy p
Made(i, p, op) ==
    {j \in 1..Len(proxyCalls[p]) : proxyCalls[p][j].by = i /\ proxyCalls[p][j].op = op}

\* C14: a start() on the composite has started both proxies by the time it
\* returns its promise; the promise is fulfilled only when both proxies'
\* promises are, is rejected only when one of them is and is due to be
\* rejected as soon as one is; and a start() closes no proxy.
C14_CompositeStart ==
    /\ \A i \in 1..Len(compositeCalls) :
          compositeCalls[i].op = "start" =>
            /\ \A p \in Proxies : Cardinality(Made(i, p, "start")) = 1
            /\ \A p \in Proxies : Made(i, p, "close") = {}
            /\ compositeCalls[i].state = "fulfilled"
                  => \A c \in CallsBy(i) : c.state = "fulfilled"
            /\ compositeCalls[i].state = "rejected"
                  => \E c \in CallsBy(i) : c.state = "rejected"
            /\ (compositeCalls[i].state = "pending"
                 /\ \E c \in CallsBy(i) : c.state = "rejected")
                  => ENABLED CompositeSettles(i)
    /\ \A p \in Proxies : \A j \in 1..Len(proxyCalls[p]) :
          proxyCalls[p][j].op = "close" => compositeCalls[proxyCalls[p][j].by].op = "close"

\* The stdio proxy has started, the tunnel proxy has failed to start, the
\* composite's start() has rejected and no proxy has been closed
C14_Witness ==
    /\ compositeCalls = <<Call("start", 0, "rejected")>>
    /\ proxyCalls["stdio"] = <<Call("start", 1, "fulfilled")>>
    /\ proxyCalls["tunnel"] = <<Call("start", 1, "rejected")>>

(***************************************************************************)
(* The transport's lifecycle.                                              *)
(***************************************************************************)
\* C15: once close() has been called, no send() writes to stdout and no
\* start() attaches a listener to stdin.
C15_AfterCloseFailFast ==
    [][calls.close > 0 => /\ stdout' = stdout
                          /\ dataListeners' <= dataListeners
                          /\ errorListeners' <= errorListeners]_vars

\* C16: the first start() attaches one data listener and one error listener;
\* every later start() is rejected and attaches none; stdin never has more
\* than one of each, and a chunk is handled once.
C16_StartAtMostOnce ==
    /\ [](dataListeners <= 1 /\ errorListeners <= 1)
    /\ [][(calls'.start = calls.start + 1 /\ calls.start = 0)
              => (/\ calls'.startRejected = calls.startRejected
                  /\ dataListeners' = 1
                  /\ errorListeners' = 1)]_vars
    /\ [][(calls'.start = calls.start + 1 /\ calls.start > 0)
              => (/\ calls'.startRejected = calls.startRejected + 1
                  /\ dataListeners' = dataListeners
                  /\ errorListeners' = errorListeners)]_vars
    /\ [][(pos' > pos)
              => LET t == handleData(This, Slice(input, pos, pos'))
                 IN  /\ buffer' = t.buffer
                     /\ framingMode' = t.framingMode
                     /\ log' = t.log]_vars

\* A second start() was rejected, and the frame that arrived was dispatched once
C16_Witness ==
    /\ calls.startRejected = 1
    /\ dataListeners = 1
    /\ errorListeners = 1
    /\ Delivered
    /\ log = <<OnMessage(MsgId2)>>

(***************************************************************************)
(* Malformed input, close and stdin errors.                                *)
(***************************************************************************)
\* The messages handed to onmessage, in order
Dispatched ==
    LET made == SelectSeq(log, LAMBDA e : e.cb = "onmessage")
    IN  [i \in 1..Len(made) |-> made[i].value]

\* The messages of the JSON lines among the first k frames, in order
RECURSIVE JsonLines(_)
JsonLines(k) ==
    IF k = 0 THEN <<>>
    ELSE IF frames[k].kind = "newline" THEN Append(JsonLines(k - 1), frames[k].msg)
    ELSE JsonLines(k - 1)

\* The stream is lines, one of them not JSON
HasOneBadLine ==
    /\ \A k \in 1..Len(frames) : frames[k].kind \in {"newline", "garbage"}
    /\ Cardinality({k \in 1..Len(frames) : frames[k].kind = "garbage"}) = 1

\* The first line of the stream, as detectFramingMode reads it
FirstLine == Trim(StripTrailingCR(Slice(Utf8Decode(input), 0, IndexOf(Utf8Decode(input), LF))))

\* C17 as stated: wherever the line that is not JSON stands in a stream of
\* lines, every JSON line that has arrived is dispatched.
C17_NeverHalts ==
    (HasOneBadLine /\ Undisturbed) => Dispatched = JsonLines(Completed)

\* C17 amended: the same for the streams whose first line begins with { or [.
C17_NeverHaltsJsonFirst ==
    (/\ HasOneBadLine
     /\ Undisturbed
     /\ StartsWith(FirstLine, "{") \/ StartsWith(FirstLine, "["))
    => Dispatched = JsonLines(Completed)

\* The first line is cut-off JSON: it is reported and the next line dispatched
C17_Witness ==
    /\ frames = <<GarbageLine, NewlineFrame(MsgId3)>>
    /\ Delivered
    /\ Calls = <<<<"onerror", JNull>>, <<"onmessage", MsgId3>>>>

\* The onmessage and onerror invocations so far
Reported == Cardinality({i \in 1..Len(log) : log[i].cb \in {"onmessage", "onerror"}})

\* C18: close() removes the data and the error listener, empties the buffer,
\* writes nothing and reports nothing; and once close() has been called, no
\* stdin event leads to an onmessage or an onerror.
C18_CloseDetachesAndDiscards ==
    /\ [][calls'.close = calls.close + 1
            => (/\ dataListeners' = 0
                /\ errorListeners' = 0
                /\ buffer' = ""
                /\ stdout' = stdout
                /\ Reported' = Reported)]_vars
    /\ [][calls.close > 0 => Reported' = Reported]_vars

\* All frames of the stream are well-formed frames of one format
OneFormat ==
    /\ Len(frames) >= 1
    /\ frames[1].kind \in {"content-length", "newline"}
    /\ \A k \in 1..Len(frames) : frames[k].kind = frames[1].kind

\* C19: a stdin error is reported by exactly one onerror with that error and
\* nothing else: no onclose, the listeners, the framing mode and the buffer
\* as they were; and the frames completed afterwards are dispatched as they
\* are without the error.
C19_StdinErrorKeepsOpen ==
    /\ [][calls'.stdinError = calls.stdinError + 1
            => (/\ log' = Append(log, OnError("EIO", ""))
                /\ dataListeners' = dataListeners
                /\ errorListeners' = errorListeners
                /\ stdinFlowing' = stdinFlowing
                /\ framingMode' = framingMode
                /\ buffer' = buffer)]_vars
    /\ []((OneFormat /\ calls.close = 0)
            => Dispatched = [k \in 1..Completed |-> frames[k].msg])

\* stdin failed after the first frame was dispatched, and the second frame
\* was dispatched after the failure
C19_Witness ==
    /\ OneFormat
    /\ calls.close = 0
    /\ Delivered
    /\ Len(frames) = 2
    /\ Calls = <<<<"onmessage", frames[1].msg>>, <<"onerror", JNull>>,
                 <<"onmessage", frames[2].msg>>>>

(***************************************************************************)
(* The tunnel.                                                             *)
(***************************************************************************)
\* C20: on every socket the transport has opened, the first one and each one
\* of a reconnection, the first frame sent is the handshake, an object with
\* projectRoot and devServerUrl; no message of send() goes before it.
C20_HandshakeFirst ==
    \A k \in 1..Len(sockets) :
        /\ sockets[k].state = "connecting" => sockets[k].sent = <<>>
        /\ Len(sockets[k].sent) >= 1 =>
              LET first == JsonParse(sockets[k].sent[1])
              IN  /\ first.ok
                  /\ first.val = Handshake
                  /\ {first.val.kv[i][1] : i \in 1..Len(first.val.kv)}
                        = {"projectRoot", "devServerUrl"}

\* A message passed to send() while the second socket was not connected yet
\* went out on it, after the handshake
C20_Witness ==
    /\ Len(sockets) = 2
    /\ sockets[1].sent = <<JsonStringify(Handshake)>>
    /\ sockets[2].sent = <<JsonStringify(Handshake), JsonStringify(MsgId3)>>
    /\ tunnelCalls.send = 1

(***************************************************************************)
(* streamProcessOutput.                                                    *)
(***************************************************************************)
\* A stop was requested: the duration timer fired or the abort signal fired
StopRequested == run.timeoutHandle = "fired" \/ abortSignal

\* The promise the call returned has settled
Settled == run.promise \in {"resolved", "rejected"}

\* C21: when the child emits close while the promise is pending, the promise
\* rejects if and only if no stop had been requested and the exit code is
\* not 0 and the signal is null, and resolves in every other case; the
\* promise settles exactly once.
C21_CloseOutcome ==
    /\ [][(child.state = "running" /\ child'.state = "closed" /\ run.promise = "pending")
            => /\ run'.promise \in {"resolved", "rejected"}
               /\ run'.promise = "rejected"
                    <=> (~StopRequested /\ child'.code # "0" /\ child'.signal = "null")]_vars
    /\ [][Settled => run'.promise = run.promise]_vars
    /\ [](run.settlements <= 1 /\ (Settled <=> run.settlements = 1))

\* The child exits with code 1 after the duration timer fired, and the
\* promise resolves
C21_Witness ==
    /\ child.state = "closed" /\ child.code = "1" /\ child.signal = "null"
    /\ run.timeoutHandle = "fired"
    /\ run.promise = "resolved"
    /\ run.settlements = 1

\* C22: once the promise has settled, neither onStdoutLine nor onStderrLine
\* is invoked again, whatever the streams deliver afterwards: every call of
\* them was made while the promise was pending.
C22_NoForwardAfterSettle ==
    \A i \in 1..Len(forwarded) : forwarded[i].promise = "pending"

\* A line was forwarded, the promise settled, and a line that arrived after
\* that was left unread
C22_Witness ==
    /\ Settled
    /\ Len(forwarded) > 0
    /\ \E s \in Streams : streams[s].unread > 0

\* The signals sent by the callbacks of the two timers
ByTimer(i) == kills[i].by \in {"timeoutHandle", "killHandle"}

\* C23: while the promise is pending both timers stay set; when durationMs
\* elapses with the promise pending the child is sent SIGINT and the stop is
\* marked as requested; SIGKILL is sent only with the promise still pending
\* when the second timer is due, never before the SIGINT of the first timer;
\* after the promise has settled neither timer sends a signal.
C23_TerminationEscalation ==
    /\ [][(run.timeoutHandle = "armed" /\ run'.timeoutHandle = "fired")
            => /\ kills' = Append(kills, Kill("SIGINT", "timeoutHandle", run))
               /\ run'.stopRequested]_vars
    /\ []((run.promise = "pending")
            => /\ run.timeoutHandle \in {"armed", "fired"}
               /\ run.killHandle \in {"armed", "fired"})
    /\ [](\A i \in 1..Len(kills) :
            /\ ByTimer(i) => kills[i].promise = "pending"
            /\ kills[i].sig = "SIGKILL"
                 => \E j \in 1..(i - 1) : kills[j].sig = "SIGINT" /\ kills[j].by = "timeoutHandle")

\* SIGINT at durationMs, SIGKILL a second later, and then the child closes
C23_Witness ==
    /\ Len(kills) = 2
    /\ kills[1].sig = "SIGINT" /\ kills[1].by = "timeoutHandle"
    /\ kills[2].sig = "SIGKILL" /\ kills[2].by = "killHandle"
    /\ child.state = "closed"
    /\ run.promise = "resolved"

\* The abort signal fires in this step
Aborting == ~abortSignal /\ abortSignal'

\* C24: a call with an already aborted signal sends SIGTERM and rejects, with
\* no listener and no timer registered; an abort while the promise is
\* pending sends SIGINT and marks the stop as requested, and a close that
\* follows it with the promise pending resolves the promise; once the
\* promise has settled the abort listener is removed, and an abort after
\* that sends no signal.
C24_AbortHandling ==
    /\ []((options.signal = "aborted" /\ run.promise # "none")
            => /\ kills = <<Kill("SIGTERM", "streamProcessOutput", NotCalled)>>
               /\ run.promise = "rejected"
               /\ run.abortHandler = "undefined"
               /\ run.killHandle = "undefined" /\ run.timeoutHandle = "undefined"
               /\ ~child.onError /\ ~child.onClose
               /\ \A s \in Streams : streams[s].loop = "none" /\ run.readers[s] = "none")
    /\ [][(Aborting /\ run.promise = "pending")
            => /\ kills' = Append(kills, Kill("SIGINT", "abortHandler", run))
               /\ run'.stopRequested]_vars
    /\ [][(child.state = "running" /\ child'.state = "closed" /\ run.promise = "pending"
             /\ abortSignal)
            => run'.promise = "resolved"]_vars
    /\ [](Settled => run.abortHandler # "listening")
    /\ [][(Aborting /\ Settled) => UNCHANGED <<kills, run>>]_vars

\* The signal fired while the promise was pending, the child then exited
\* with code 1, the promise resolved and the listener was removed
C24_Witness ==
    /\ abortSignal
    /\ \E i \in 1..Len(kills) : kills[i].by = "abortHandler" /\ kills[i].sig = "SIGINT"
    /\ child.state = "closed" /\ child.code = "1"
    /\ run.promise = "resolved"
    /\ run.abortHandler = "removed"

\* C30: on every path on which the promise settles, the child has emitted
\* close or has been sent a termination signal; no path settles the promise
\* and cancels the timers while the child is running and unsignalled.
C30_NeverAbandonsChild ==
    Settled => (child.state = "closed" \/ kills # <<>>)

(***************************************************************************)
(* Header blocks.                                                          *)
(***************************************************************************)
\* The callbacks the first k blocks of a stream under Content-Length headers
\* call for: onmessage for a frame, onerror for an invalid header block
BlockCalls(k) ==
    [i \in 1..k |-> IF frames[i].kind = "invalid-header" THEN <<"onerror", JNull>>
                    ELSE <<"onmessage", frames[i].msg>>]

\* The stream is made of frames under Content-Length headers and invalid
\* header blocks
HeaderBlocks ==
    /\ Len(frames) >= 1
    /\ \A k \in 1..Len(frames) : frames[k].kind \in {"content-length", "invalid-header"}

\* C25: in content-length mode an invalid header block causes exactly one
\* onerror call, the buffer is advanced past its delimiter and no further,
\* and every well-formed frame after it is dispatched: the callbacks made
\* are those of the blocks completed so far, in order, and the buffer holds
\* the bytes received after the last completed block.
C25_InvalidHeaderRecovery ==
    (HeaderBlocks /\ Undisturbed)
    => /\ Completed > 0 => framingMode = "content-length"
       /\ Calls = BlockCalls(Completed)
       /\ buffer = Slice(input, FrameEnd(Completed), pos)

\* C27: a frame whose header block ends with LF LF is decoded like one whose
\* header block ends with CR LF CR LF: for a stream of well-formed frames,
\* each with either delimiter, the messages dispatched so far are those of
\* the frames completed so far, once each and in order, and no error is
\* reported.
C27_LenientDelimiter ==
    (/\ Len(frames) >= 1
     /\ \A k \in 1..Len(frames) : frames[k] \in EitherDelimiter
     /\ Undisturbed)
    => /\ log = [k \in 1..Completed |-> OnMessage(frames[k].msg)]
       /\ buffer = Slice(input, FrameEnd(Completed), pos)

(***************************************************************************)
(* Detection.                                                              *)
(***************************************************************************)
\* The bytes stdin has emitted, and their text without a leading BOM and
\* leading white space
Received == Slice(input, 0, pos)
Stripped == TrimStart(StripLeadingBOM(Utf8Decode(Received)))

\* The stream is a BOM or white space followed by well-formed frames of one
\* format
LeadingThenFrames ==
    /\ Len(frames) >= 2
    /\ frames[1].kind = "leading"
    /\ frames[2].kind \in {"content-length", "newline"}
    /\ \A k \in 2..Len(frames) : frames[k].kind = frames[2].kind

\* C26: a stream of an optional BOM and leading white space followed by
\* well-formed frames of one format is detected as that format, and its
\* first frame is dispatched through onmessage with no onerror call; while
\* no newline has arrived and the stripped text does not start with
\* `Content-Length:`, detection is deferred: no mode, no callback, and every
\* byte received is still in the buffer.
C26_LeadingBomAndWhitespace ==
    Undisturbed
    => /\ (LeadingThenFrames /\ Completed >= 2)
            => /\ framingMode = frames[2].kind
               /\ Len(log) >= 1 /\ log[1] = OnMessage(frames[2].msg)
               /\ OnErrorCalls = 0
       /\ (calls.data > 0 /\ IndexOf(Received, LF) = -1 /\ ~StartsWith(Stripped, "Content-Length:"))
            => /\ framingMode = "undefined"
               /\ log = <<>>
               /\ buffer = Received

\* What a fresh transport makes of the whole stream handed to it as one chunk
AtOnce ==
    handleData([This EXCEPT !.buffer = "", !.framingMode = "undefined", !.log = <<>>], input)

\* C28: once all bytes are delivered, the detected mode and the sequence of
\* onmessage and onerror callbacks are the same however the bytes were split
\* into chunks: they are those of the stream delivered as one chunk.
C28_ChunkIndependence ==
    (Delivered /\ Undisturbed /\ calls.data > 0)
    => /\ framingMode = AtOnce.framingMode
       /\ log = AtOnce.log

\* C29: if an onmessage or onerror callback calls close() while a chunk that
\* holds several complete frames is being decoded, no further onmessage or
\* onerror callback is invoked for the remaining frames: the callback that
\* closed is followed by onclose and by nothing else, and the buffer is empty
\* when the data handler returns, in content-length and in newline mode.
C29_ReentrantCloseStops ==
    (plan.closeIn # {})
    => /\ \A i \in 1..Len(log) :
            log[i].cb \in plan.closeIn => (Len(log) = i + 1 /\ log[i + 1] = OnClose)
       /\ calls.close <= 1
       /\ calls.close = 1 => (buffer = "" /\ dataListeners = 0 /\ stdinFlowing = "false")

\* One chunk with a frame, an invalid header block and a frame, to an owner
\* that closes in onerror: the first message, the error, onclose, and the
\* last frame is dropped
C29_Witness ==
    /\ plan.closeIn = {"onerror"}
    /\ framingMode = "content-length"
    /\ Len(frames) = 3
    /\ Delivered
    /\ calls.data = 1
    /\ calls.close = 1
    /\ Len(log) = 3
    /\ log[1] = OnMessage(MsgId2) /\ log[2].cb = "onerror" /\ log[3] = OnClose
    /\ buffer = ""

====
